---- MODULE Spec2Model ----
(***************************************************************************)
(* Graph analysis pipeline of bv (beads_viewer): the --robot-insights path *)
(* of main, i.e. NewAnalyzer -> Analyze -> GenerateInsights -> JSON        *)
(* encoding, followed by a second run on the same issues.                  *)
(*                                                                         *)
(* The graph is gonum's simple.DirectedGraph: a node set and a set of      *)
(* (from, to) pairs; SetEdge on an existing pair is a no-op and SetEdge    *)
(* with from = to panics.  topo.Sort, topo.DirectedCyclesIn and            *)
(* network.Betweenness are modelled by their results.  Float metrics that  *)
(* need no real arithmetic are integers; PageRank values are abstracted to *)
(* a token, only the key set of that map is used by the code modelled.     *)
(*                                                                         *)
(* Further specifications: SpecPlan is the --robot-plan path of main       *)
(* (NewAnalyzer -> GetExecutionPlan), SpecConvert applies toModelIssue to  *)
(* one daemon record, SpecLoad is one call of loadIssuesFromURL against a  *)
(* daemon whose answer is given.  SpecRecipe applies a recipe to the       *)
(* issues (applyRecipeFilters, then applyRecipeSort), SpecDiff compares    *)
(* two snapshots, SpecPoller runs an HTTPPoller against Stop.  The graph   *)
(* viewer has three: SpecNavigator (the cycle navigator), SpecWhatIf (the  *)
(* what-if simulation and its timers) and SpecGraphData (prepareGraphData  *)
(* under setFilter).                                                       *)
(***************************************************************************)
EXTENDS Integers, Sequences, FiniteSets, TLC

\* ---------------------------------------------------------------- bounds
\* Issue ids in lexicographic order; the input uses a prefix of this list
\* or of its reverse.
IdList == <<"A", "B", "C">>
\* An id that never names an issue of the input.
UnknownID == "Z"
\* Total number of dependency records over all issues of the input.
MaxDeps == 2
DepTypes == {"blocks", "parent-child", "related"}
\* The limit main passes to GenerateInsights.
RobotInsightsLimit == 50
Limits == {1, RobotInsightsLimit}
\* Longest dependsOn and blockedBy list of a daemon record.
MaxRefs == 2
\* Most records in one daemon response.
MaxRecords == 2
\* The ids a daemon record names in dependsOn, blockedBy and parent; the
\* empty string is what an absent JSON field decodes to.
RefIDs == {"", "B", "C"}
\* An id that daemon records name under blocks and children only.
InverseOnlyID == "D"
\* Timestamps of daemon records: absent, RFC 3339, not RFC 3339.
GoodTime == "2024-01-01T00:00:00Z"
BadTime == "yesterday"
\* Status strings of daemon records: two enum names and a name the enum
\* does not have.
ProtoStatuses ==
  {"ISSUE_STATUS_OPEN", "ISSUE_STATUS_CLOSED", "ISSUE_STATUS_REVIEW"}
\* HTTP status codes the daemon answers with.
StatusCodes == {200, 404, 500}
\* The statuses and dependency types of the issues a plan is made for.
PlanStatuses == {"open", "in_progress", "blocked", "closed", "tombstone"}
PlanDepTypes == {"blocks", "parent-child"}

\* ---------------------------------------------------------------- helpers
Ids == {IdList[i] : i \in 1..Len(IdList)}
IdRank(id) == CHOOSE i \in 1..Len(IdList) : IdList[i] = id
Reverse(s) == [i \in 1..Len(s) |-> s[Len(s) + 1 - i]]
Range(s) == {s[i] : i \in DOMAIN s}
Min(a, b) == IF a < b THEN a ELSE b
InjSeqs(S) ==
  UNION {{s \in [1..k -> S] : \A i, j \in 1..k : i # j => s[i] # s[j]} :
         k \in 0..Cardinality(S)}
EmptyMap == [x \in {} |-> 0]

RECURSIVE SetMax(_)
SetMax(S) ==
  IF S = {} THEN 0
  ELSE LET x == CHOOSE y \in S : TRUE
           m == SetMax(S \ {x})
       IN IF x > m THEN x ELSE m

RECURSIVE SetSum(_, _)
SetSum(f, S) ==
  IF S = {} THEN 0
  ELSE LET x == CHOOSE y \in S : TRUE IN f[x] + SetSum(f, S \ {x})

\* ---------------------------------------------------------------- inputs
\* The ids of the issues main loads, in input order.  Ids are unique within
\* one input.
IssueIDSeqs ==
  {SubSeq(IdList, 1, k) : k \in 0..Len(IdList)} \cup
  {SubSeq(Reverse(IdList), 1, k) : k \in 0..Len(IdList)}

\* model.Dependency as NewAnalyzer reads it, tagged with the position of the
\* owning issue; the records of one issue are consecutive.
OwnedDeps(n) ==
  [owner : 1..n, DependsOnID : Ids \cup {UnknownID}, Type : DepTypes]
FlatDeps(n) ==
  UNION {{d \in [1..k -> OwnedDeps(n)] :
            \A i \in 1..k : i < k => d[i].owner <= d[i + 1].owner} :
         k \in 0..MaxDeps}
DepsOf(flat, i) ==
  LET mine == SelectSeq(flat, LAMBDA d : d.owner = i)
  IN [j \in 1..Len(mine) |->
        [DependsOnID |-> mine[j].DependsOnID, Type |-> mine[j].Type]]
IssuesFrom(ids, flat) ==
  [i \in 1..Len(ids) |-> [ID |-> ids[i], Dependencies |-> DepsOf(flat, i)]]

VARIABLES
  issues,      \* []model.Issue loaded by main
  limit,       \* argument of the GenerateInsights call (0 before the call)
  pc,          \* position of main in the --robot-insights branch
  analyzer,    \* *Analyzer: g, idToNode, nodeToID
  stats,       \* GraphStats returned by Analyze
  insights,    \* Insights returned by GenerateInsights
  output,      \* what the JSON encoder wrote to stdout
  rerunSame,   \* a second run on the same issues wrote the same output
  plan,        \* ExecutionPlan returned by GetExecutionPlan
  record,      \* the protoIssue handed to toModelIssue
  converted,   \* what toModelIssue returned: issue and err
  response,    \* how the daemon answers the ListIssues request
  opts,        \* ParseOptions of the load: the IssueFilter
  loaded,      \* what loadIssuesFromURL returned: issues and err
  warnings,    \* the messages handed to the warning handler, in order
  recipe,      \* *recipe.Recipe given to applyRecipeFilters / applyRecipeSort
  filtered,    \* what applyRecipeFilters returned
  ordered,     \* what applyRecipeSort returned
  before,      \* the snapshot the diff starts from
  after,       \* the snapshot the diff ends at
  diff,        \* SnapshotDiff returned by CompareSnapshots
  poller,      \* HTTPPoller: lastCount, source, done, and where run() is
  calls,       \* history: one entry per finished poll and per Stop
  cycleNavigatorState, \* the cycle navigator of the graph viewer
  whatIfState,         \* the what-if simulation of the graph viewer
  store,       \* GraphStore: issues, dependencies, filters, highlights
  timers,      \* pending setTimeout callbacks, per simulation
  graphData    \* what prepareGraphData returned

loaderVars == <<record, converted, response, opts, loaded, warnings>>
recipeVars == <<recipe, filtered, ordered>>
diffVars == <<before, after, diff>>
pollerVars == <<poller, calls>>
viewerVars == <<cycleNavigatorState, whatIfState, store, timers, graphData>>
extVars == <<recipeVars, diffVars, pollerVars, viewerVars>>
vars == <<issues, limit, pc, analyzer, stats, insights, output, rerunSame, extVars,
          plan, loaderVars>>

\* ---------------------------------------------------------------- NewAnalyzer
NilAnalyzer ==
  [g |-> [nodes |-> {}, edges |-> {}], idToNode |-> EmptyMap,
   nodeToID |-> EmptyMap]

IssueIDs(iss) == {iss[i].ID : i \in 1..Len(iss)}

\* Loop 1 of NewAnalyzer: g.NewNode() hands out 0, 1, 2, ... in input order.
IdToNode(iss) ==
  [id \in IssueIDs(iss) |-> (CHOOSE i \in 1..Len(iss) : iss[i].ID = id) - 1]
NodeToID(iss) == [n \in 0..(Len(iss) - 1) |-> iss[n + 1].ID]

\* Nodes reachable from the nodes of frontier along one or more edges of E.
RECURSIVE ReachFrom(_, _, _)
ReachFrom(E, frontier, seen) ==
  LET next == {e[2] : e \in {d \in E : d[1] \in frontier}} \ seen
  IN IF next = {} THEN seen ELSE ReachFrom(E, next, seen \cup next)
Reach(E, u) == ReachFrom(E, {u}, {})

\* Mutation: SetEdge refuses an edge that would close a cycle.
SetEdgeBreakingCycles(built, u, v) ==
  IF built.panic THEN built
  ELSE IF u = v THEN [built EXCEPT !.panic = TRUE]
  ELSE IF u \in Reach(built.edges, v) THEN built
  ELSE [built EXCEPT !.edges = @ \cup {<<u, v>>}]

\* g.SetEdge(g.NewEdge(g.Node(u), g.Node(v))) on the graph built so far.
SetEdge(built, u, v) ==
  IF built.panic THEN built
  ELSE IF u = v THEN [built EXCEPT !.panic = TRUE]
  ELSE [built EXCEPT !.edges = @ \cup {<<u, v>>}]

\* Mutation: the "exists" flag is ignored, a missing key reads as node 0.
AddDependencyNoExistsCheck(built, idToNode, u, dep) ==
  SetEdge(built, u,
          IF dep.DependsOnID \in DOMAIN idToNode
            THEN idToNode[dep.DependsOnID] ELSE 0)

\* idToNode[dep.DependsOnID] with its "exists" flag.
AddDependency(built, idToNode, u, dep) ==
  IF dep.DependsOnID \in DOMAIN idToNode
    THEN SetEdge(built, u, idToNode[dep.DependsOnID])
    ELSE built

RECURSIVE AddDependencies(_, _, _, _, _)
AddDependencies(built, idToNode, u, deps, j) ==
  IF j > Len(deps) THEN built
  ELSE AddDependencies(AddDependency(built, idToNode, u, deps[j]),
                       idToNode, u, deps, j + 1)

\* Loop 2 of NewAnalyzer over the issues from position i on.
RECURSIVE AddEdges(_, _, _, _)
AddEdges(built, idToNode, iss, i) ==
  IF i > Len(iss) THEN built
  ELSE AddEdges(AddDependencies(built, idToNode, idToNode[iss[i].ID],
                                iss[i].Dependencies, 1),
                idToNode, iss, i + 1)

BuildGraph(iss) ==
  AddEdges([panic |-> FALSE, edges |-> {}], IdToNode(iss), iss, 1)

\* ---------------------------------------------------------------- gonum graph
From(g, n) == {v \in g.nodes : <<n, v>> \in g.edges}
To(g, n) == {u \in g.nodes : <<u, n>> \in g.edges}

\* Paths without a repeated node, as node sequences of length >= 1.
SimplePaths(g) ==
  {p \in InjSeqs(g.nodes) :
     Len(p) >= 1 /\ \A i \in 1..(Len(p) - 1) : <<p[i], p[i + 1]>> \in g.edges}

\* Mutation: the edge that closes the cycle is not required.
ElementaryCyclesOpen(g) ==
  {p \in SimplePaths(g) : Len(p) >= 2 /\ \A i \in 2..Len(p) : p[1] < p[i]}

\* Elementary cycles, each once, as an open node sequence that starts at
\* its least node id.
ElementaryCycles(g) ==
  {p \in SimplePaths(g) :
     /\ Len(p) >= 2
     /\ <<p[Len(p)], p[1]>> \in g.edges
     /\ \A i \in 2..Len(p) : p[1] < p[i]}

HasCycle(g) == ElementaryCycles(g) # {}

\* Mutation: each cycle is written without the closing start node.
DirectedCyclesInOpen(g) ==
  LET cyc == ElementaryCycles(g)
  IN {o \in InjSeqs(cyc) :
        /\ Len(o) = Cardinality(cyc)
        /\ \A i \in 1..(Len(o) - 1) : o[i][1] <= o[i + 1][1]}

\* topo.DirectedCyclesIn (Johnson): every elementary cycle once, found from
\* its least node, written as the stack followed by the start node again.
\* Start nodes are visited in increasing order; the order of the cycles of
\* one start node follows map iteration and is not fixed.
DirectedCyclesIn(g) ==
  LET cyc == ElementaryCycles(g)
  IN {[i \in 1..Len(o) |-> Append(o[i], o[i][1])] :
        o \in {q \in InjSeqs(cyc) :
                 /\ Len(q) = Cardinality(cyc)
                 /\ \A i \in 1..(Len(q) - 1) : q[i][1] <= q[i + 1][1]}}

\* Mutation: a cycle is not reported; the nodes come back in id order.
TopoSortUndetected(g) ==
  IF HasCycle(g)
  THEN {[sorted |-> [i \in 1..Cardinality(g.nodes) |-> i - 1], err |-> FALSE]}
  ELSE {[sorted |-> s, err |-> FALSE] :
          s \in {q \in InjSeqs(g.nodes) :
                   /\ Len(q) = Cardinality(g.nodes)
                   /\ \A i, j \in 1..Len(q) :
                        <<q[i], q[j]>> \in g.edges => i < j}}

\* topo.Sort: err is set when the graph has a cycle; otherwise sorted holds
\* every node once with u before v for every edge u -> v.  Which of these
\* orders is returned depends on map iteration.
TopoSort(g) ==
  IF HasCycle(g) THEN {[sorted |-> <<>>, err |-> TRUE]}
  ELSE {[sorted |-> s, err |-> FALSE] :
          s \in {q \in InjSeqs(g.nodes) :
                   /\ Len(q) = Cardinality(g.nodes)
                   /\ \A i, j \in 1..Len(q) :
                        <<q[i], q[j]>> \in g.edges => i < j}}

\* network.Betweenness (Brandes, directed, unweighted): for node v the sum
\* over ordered pairs (s, t), both different from v, of the share of the
\* shortest s-t paths that pass through v.  Values are in units of 1/12.
\* The returned map holds only the nodes whose value is not zero.
ShortestPaths(g, s, t) ==
  LET st == {p \in SimplePaths(g) : p[1] = s /\ p[Len(p)] = t}
  IN {p \in st : \A q \in st : Len(p) <= Len(q)}
PairDependency(g, s, t, v) ==
  LET sp == ShortestPaths(g, s, t)
  IN IF sp = {} THEN 0
     ELSE (12 * Cardinality({p \in sp : \E i \in 2..(Len(p) - 1) : p[i] = v}))
            \div Cardinality(sp)
BetweennessOf(g, v) ==
  LET pairs == {st \in (g.nodes \ {v}) \X (g.nodes \ {v}) : st[1] # st[2]}
      dep == [st \in pairs |-> PairDependency(g, st[1], st[2], v)]
  IN SetSum(dep, pairs)
Betweenness(g) ==
  [v \in {n \in g.nodes : BetweennessOf(g, n) # 0} |-> BetweennessOf(g, v)]

\* network.PageRank: one score per node.  The scores are floats the model
\* does not compute; mat.NewDense inside PageRank refuses a 0 x 0 matrix in
\* gonum releases that reject zero dimensions, so on an empty graph the call
\* either returns an empty map or panics, depending on the release built in.
PageRank(g) == [n \in g.nodes |-> "score"]
PageRankOutcomes(g) == IF g.nodes = {} THEN {"ok", "panic"} ELSE {"ok"}

\* ---------------------------------------------------------------- Analyze
\* Re-key a map on node ids to issue ids: stats.X[a.nodeToID[id]] = score.
ByIssueID(m, nodeToID) ==
  [id \in {nodeToID[n] : n \in DOMAIN m} |->
     m[CHOOSE n \in DOMAIN m : nodeToID[n] = id]]

\* Mutation: in-degree read from the successors.
InDegreeFrom(a) == [n \in a.g.nodes |-> Cardinality(From(a.g, n))]
InDegree(a) == [n \in a.g.nodes |-> Cardinality(To(a.g, n))]
OutDegree(a) == [n \in a.g.nodes |-> Cardinality(From(a.g, n))]

CycleIDs(cycle, nodeToID) == [i \in 1..Len(cycle) |-> nodeToID[cycle[i]]]
Cycles(cycles, nodeToID) ==
  [i \in 1..Len(cycles) |-> CycleIDs(cycles[i], nodeToID)]

\* Mutation: the order of topo.Sort is kept, not reversed.
TopologicalOrderForward(sorted, nodeToID) ==
  [i \in 1..Len(sorted) |-> nodeToID[sorted[i]]]
TopologicalOrder(sorted, nodeToID) ==
  [i \in 1..Len(sorted) |-> nodeToID[sorted[Len(sorted) + 1 - i]]]

\* The loop of computeHeights from position i of sorted on.
RECURSIVE HeightsLoop(_, _, _, _)
HeightsLoop(g, sorted, i, heights) ==
  IF i > Len(sorted) THEN heights
  ELSE LET nid == sorted[i]
           maxParentHeight ==
             SetMax({heights[p] : p \in To(g, nid) \cap DOMAIN heights})
       IN HeightsLoop(g, sorted, i + 1,
            [n \in DOMAIN heights \cup {nid} |->
               IF n = nid THEN 1 + maxParentHeight ELSE heights[n]])

\* Mutation: the sorted nodes are walked from the last to the first.
computeHeightsBackward(a, sorted) ==
  ByIssueID(HeightsLoop(a.g, Reverse(sorted), 1, EmptyMap), a.nodeToID)

computeHeights(a, sorted) ==
  ByIssueID(HeightsLoop(a.g, sorted, 1, EmptyMap), a.nodeToID)

Density(n, e) ==
  IF n > 1 THEN [num |-> e, den |-> n * (n - 1)] ELSE [num |-> 0, den |-> 1]

EmptyStats ==
  [PageRank |-> EmptyMap, Betweenness |-> EmptyMap, OutDegree |-> EmptyMap,
   InDegree |-> EmptyMap, CriticalPathScore |-> EmptyMap, Cycles |-> <<>>,
   Density |-> [num |-> 0, den |-> 1], TopologicalOrder |-> <<>>,
   \* GenerateInsights reads these three maps; Analyze assigns none of them.
   Eigenvector |-> EmptyMap, Hubs |-> EmptyMap, Authorities |-> EmptyMap]

\* The GraphStats Analyze returns when DirectedCyclesIn gave cycles, the
\* topo.Sort of Analyze gave ts and the one of computeHeights gave ts2;
\* fixed holds the fields that depend on none of the three.
AnalyzeResult(a, fixed, cycles, ts, ts2) ==
  [fixed EXCEPT
     !.CriticalPathScore =
        IF ts.err THEN EmptyMap ELSE computeHeights(a, ts2.sorted),
     !.Cycles = Cycles(cycles, a.nodeToID),
     !.TopologicalOrder =
        IF ts.err THEN <<>> ELSE TopologicalOrder(ts.sorted, a.nodeToID)]

AnalyzeResults(a) ==
  LET pr == ByIssueID(PageRank(a.g), a.nodeToID)
      fixed ==
        [EmptyStats EXCEPT
           !.PageRank = pr,
           !.Betweenness = ByIssueID(Betweenness(a.g), a.nodeToID),
           !.OutDegree = ByIssueID(OutDegree(a), a.nodeToID),
           !.InDegree = ByIssueID(InDegree(a), a.nodeToID),
           !.Density = Density(Cardinality(DOMAIN pr),
                               Cardinality(a.g.edges))]
      sorts == TopoSort(a.g)
  IN {AnalyzeResult(a, fixed, cycles, ts, ts2) :
        cycles \in DirectedCyclesIn(a.g), ts \in sorts, ts2 \in sorts}

\* ---------------------------------------------------------------- GenerateInsights
\* Mutation: the smaller value sorts first.
LessAscending(m, a, b) == m[a] < m[b]

\* The less function getTopItems hands to sort.Slice.
Less(m, a, b) == m[a] > m[b]

\* sort.Slice over the entries of m collected in map iteration order: any
\* arrangement of the keys in which no later key is less than an earlier one.
\* sort.Slice is not stable and map iteration order is not fixed, so keys
\* that compare equal come out in any order.
SortSlice(m) ==
  {ss \in InjSeqs(DOMAIN m) :
     /\ Len(ss) = Cardinality(DOMAIN m)
     /\ \A i, j \in 1..Len(ss) : i < j => ~Less(m, ss[j], ss[i])}

\* The possible results of getTopItems(m, limit).
getTopItems(m, lim) ==
  {[i \in 1..(IF lim < 0 THEN 0 ELSE Min(Len(ss), lim)) |->
      [ID |-> ss[i], Value |-> m[ss[i]]]] : ss \in SortSlice(m)}

\* The possible results of s.GenerateInsights(limit).  Orphans is not
\* assigned and stays nil.
GenerateInsights(s, lim) ==
  {[Bottlenecks |-> b, Keystones |-> k, Influencers |-> i, Hubs |-> h,
    Authorities |-> au, Orphans |-> <<>>, Cycles |-> s.Cycles,
    ClusterDensity |-> s.Density, Stats |-> s] :
     b \in getTopItems(s.Betweenness, lim),
     k \in getTopItems(s.CriticalPathScore, lim),
     i \in getTopItems(s.Eigenvector, lim),
     h \in getTopItems(s.Hubs, lim),
     au \in getTopItems(s.Authorities, lim)}

EmptyInsights ==
  [Bottlenecks |-> <<>>, Keystones |-> <<>>, Influencers |-> <<>>,
   Hubs |-> <<>>, Authorities |-> <<>>, Orphans |-> <<>>, Cycles |-> <<>>,
   ClusterDensity |-> [num |-> 0, den |-> 1], Stats |-> EmptyStats]

\* ---------------------------------------------------------------- JSON encoding
\* encoding/json writes struct fields in declaration order, slices in
\* element order and maps with their keys sorted.
SortedKeys(m) == SelectSeq(IdList, LAMBDA id : id \in DOMAIN m)
EncodeMap(m) ==
  LET ks == SortedKeys(m) IN [i \in 1..Len(ks) |-> <<ks[i], m[ks[i]]>>]
EncodeItems(items) ==
  [i \in 1..Len(items) |-> <<"ID", items[i].ID, "Value", items[i].Value>>]
EncodeStats(s) ==
  <<"PageRank", EncodeMap(s.PageRank),
    "Betweenness", EncodeMap(s.Betweenness),
    "OutDegree", EncodeMap(s.OutDegree),
    "InDegree", EncodeMap(s.InDegree),
    "CriticalPathScore", EncodeMap(s.CriticalPathScore),
    "Cycles", s.Cycles,
    "Density", s.Density,
    "TopologicalOrder", s.TopologicalOrder>>
Encode(ins) ==
  <<"Bottlenecks", EncodeItems(ins.Bottlenecks),
    "Keystones", EncodeItems(ins.Keystones),
    "Influencers", EncodeItems(ins.Influencers),
    "Hubs", EncodeItems(ins.Hubs),
    "Authorities", EncodeItems(ins.Authorities),
    "Orphans", ins.Orphans,
    "Cycles", ins.Cycles,
    "ClusterDensity", ins.ClusterDensity,
    "Stats", EncodeStats(ins.Stats)>>

\* ---------------------------------------------------------------- loader
\* A nil error, and an error with its message and the status code the
\* message is formatted with (0: none).
NoError == [msg |-> "", code |-> 0]
Errorf(msg, code) == [msg |-> msg, code |-> code]

ZeroTime == "0001-01-01T00:00:00Z"
\* parseProtoTime: the empty string is the zero time, any other string goes
\* through time.Parse(time.RFC3339, s).
parseProtoTime(s) ==
  IF s = "" THEN [t |-> ZeroTime, err |-> NoError]
  ELSE IF s = GoodTime THEN [t |-> s, err |-> NoError]
  ELSE [t |-> ZeroTime, err |-> Errorf("parsing time", 0)]

\* strings.TrimPrefix(s, "ISSUE_STATUS_") and strings.ToLower on the status
\* strings of the model.
TrimPrefix(s) ==
  CASE s = "ISSUE_STATUS_OPEN" -> "OPEN"
    [] s = "ISSUE_STATUS_CLOSED" -> "CLOSED"
    [] s = "ISSUE_STATUS_REVIEW" -> "REVIEW"
    [] OTHER -> s
ToLower(s) ==
  CASE s = "OPEN" -> "open"
    [] s = "CLOSED" -> "closed"
    [] s = "REVIEW" -> "review"
    [] s = "UI" -> "ui"
    [] s = "LOG" -> "log"
    [] s = "Login" -> "login"
    [] s = "Alpha" -> "alpha"
    [] s = "ALPHA" -> "alpha"
    [] s = "A" -> "a"
    [] s = "B" -> "b"
    [] s = "C" -> "c"
    [] OTHER -> s
protoStatusMap ==
  [s \in {"ISSUE_STATUS_OPEN", "ISSUE_STATUS_IN_PROGRESS",
          "ISSUE_STATUS_BLOCKED", "ISSUE_STATUS_DEFERRED",
          "ISSUE_STATUS_PINNED", "ISSUE_STATUS_HOOKED",
          "ISSUE_STATUS_CLOSED", "ISSUE_STATUS_TOMBSTONE"} |->
     CASE s = "ISSUE_STATUS_OPEN" -> "open"
       [] s = "ISSUE_STATUS_IN_PROGRESS" -> "in_progress"
       [] s = "ISSUE_STATUS_BLOCKED" -> "blocked"
       [] s = "ISSUE_STATUS_DEFERRED" -> "deferred"
       [] s = "ISSUE_STATUS_PINNED" -> "pinned"
       [] s = "ISSUE_STATUS_HOOKED" -> "hooked"
       [] s = "ISSUE_STATUS_CLOSED" -> "closed"
       [] OTHER -> "tombstone"]
mapProtoStatus(s) ==
  IF s \in DOMAIN protoStatusMap THEN protoStatusMap[s]
  ELSE ToLower(TrimPrefix(s))

\* The zero model.Issue toModelIssue returns next to an error.
ZeroIssue ==
  [ID |-> "", Status |-> "", CreatedAt |-> ZeroTime, UpdatedAt |-> ZeroTime,
   ClosedAt |-> "nil", Dependencies |-> <<>>]

\* Mutation: the seen map is not consulted.
RECURSIVE AppendBlockingNoDedup(_, _, _, _)
AppendBlockingNoDedup(acc, id, list, i) ==
  IF i > Len(list) THEN acc
  ELSE LET dep == list[i]
       IN IF dep = ""
          THEN AppendBlockingNoDedup(acc, id, list, i + 1)
          ELSE AppendBlockingNoDedup(
                 [deps |-> Append(acc.deps,
                             [IssueID |-> id, DependsOnID |-> dep,
                              Type |-> "blocks"]),
                  seen |-> acc.seen \cup {dep}], id, list, i + 1)

\* One of the two loops of toModelIssue over dependsOn and blockedBy, from
\* position i of list on; acc holds issue.Dependencies and the seen map.
RECURSIVE AppendBlocking(_, _, _, _)
AppendBlocking(acc, id, list, i) ==
  IF i > Len(list) THEN acc
  ELSE LET dep == list[i]
       IN IF dep = "" \/ dep \in acc.seen
          THEN AppendBlocking(acc, id, list, i + 1)
          ELSE AppendBlocking(
                 [deps |-> Append(acc.deps,
                             [IssueID |-> id, DependsOnID |-> dep,
                              Type |-> "blocks"]),
                  seen |-> acc.seen \cup {dep}], id, list, i + 1)

\* parent -> parent-child dep, unless the parent is in the seen map.
AppendParent(acc, id, parent) ==
  IF parent # "" /\ parent \notin acc.seen
  THEN Append(acc.deps,
              [IssueID |-> id, DependsOnID |-> parent, Type |-> "parent-child"])
  ELSE acc.deps

\* toModelIssue(p): the issue and the error it returns.  blocks and children
\* are not read.
toModelIssue(p) ==
  LET createdAt == parseProtoTime(p.CreatedAt)
      updatedAt == parseProtoTime(p.UpdatedAt)
      closedAt == parseProtoTime(p.ClosedAt)
      dependsOn == AppendBlocking([deps |-> <<>>, seen |-> {}], p.ID,
                                  p.DependsOn, 1)
      blockedBy == AppendBlocking(dependsOn, p.ID, p.BlockedBy, 1)
  IN IF createdAt.err # NoError
     THEN [issue |-> ZeroIssue, err |-> Errorf("invalid created_at", 0)]
     ELSE IF updatedAt.err # NoError
     THEN [issue |-> ZeroIssue, err |-> Errorf("invalid updated_at", 0)]
     ELSE IF p.ClosedAt # "" /\ closedAt.err # NoError
     THEN [issue |-> ZeroIssue, err |-> Errorf("invalid closed_at", 0)]
     ELSE [issue |->
             [ID |-> p.ID, Status |-> mapProtoStatus(p.Status),
              CreatedAt |-> createdAt.t, UpdatedAt |-> updatedAt.t,
              ClosedAt |-> IF p.ClosedAt # "" THEN closedAt.t ELSE "nil",
              Dependencies |-> AppendParent(blockedBy, p.ID, p.Parent)],
           err |-> NoError]

\* The statuses of the issue model.
ValidStatuses ==
  {"open", "in_progress", "blocked", "deferred", "pinned", "hooked",
   "closed", "tombstone"}
\* normalizeIssueStatus: the status in lower case.
normalizeIssueStatus(status) == ToLower(status)
\* issue.Validate(): the id is not empty and the status is one of the model.
Validate(issue) ==
  IF issue.ID = "" THEN Errorf("issue ID is empty", 0)
  ELSE IF issue.Status \notin ValidStatuses THEN Errorf("invalid status", 0)
  ELSE NoError

\* opts.IssueFilter: nil, or the filter that keeps the open issues.
Filters == {"nil", "open"}
IssueFilter(o, issue) == issue.Status = "open"

\* Mutation: the loop ends at the first record that fails conversion or
\* validation.
RECURSIVE LoadLoopUntilFailure(_, _, _, _)
LoadLoopUntilFailure(list, o, i, acc) ==
  IF i > Len(list) THEN acc
  ELSE LET c == toModelIssue(list[i])
           issue == [c.issue EXCEPT !.Status = normalizeIssueStatus(@)]
       IN IF c.err # NoError
          THEN [acc EXCEPT !.warnings =
                    Append(@, [msg |-> "skipping issue", ID |-> list[i].ID])]
          ELSE IF Validate(issue) # NoError
          THEN [acc EXCEPT !.warnings =
                    Append(@, [msg |-> "skipping invalid issue",
                               ID |-> issue.ID])]
          ELSE IF o.IssueFilter # "nil" /\ ~IssueFilter(o, issue)
          THEN LoadLoopUntilFailure(list, o, i + 1, acc)
          ELSE LoadLoopUntilFailure(list, o, i + 1,
                 [acc EXCEPT !.issues = Append(@, issue)])

\* The loop of loadIssuesFromURL over listResp.Issues from position i on;
\* acc holds the issues appended and the warnings given so far.
RECURSIVE LoadLoop(_, _, _, _)
LoadLoop(list, o, i, acc) ==
  IF i > Len(list) THEN acc
  ELSE LET c == toModelIssue(list[i])
           issue == [c.issue EXCEPT !.Status = normalizeIssueStatus(@)]
       IN IF c.err # NoError
          THEN LoadLoop(list, o, i + 1,
                 [acc EXCEPT !.warnings =
                    Append(@, [msg |-> "skipping issue", ID |-> list[i].ID])])
          ELSE IF Validate(issue) # NoError
          THEN LoadLoop(list, o, i + 1,
                 [acc EXCEPT !.warnings =
                    Append(@, [msg |-> "skipping invalid issue",
                               ID |-> issue.ID])])
          ELSE IF o.IssueFilter # "nil" /\ ~IssueFilter(o, issue)
          THEN LoadLoop(list, o, i + 1, acc)
          ELSE LoadLoop(list, o, i + 1,
                 [acc EXCEPT !.issues = Append(@, issue)])

\* What loadIssuesFromURL returns when it fails: a nil slice and the error.
Failed(err) == [issues |-> <<>>, issuesNil |-> TRUE, err |-> err,
                warnings |-> <<>>]

\* Mutation: the status code of the response is not looked at.
loadIssuesFromURLAnyStatus(resp, o) ==
  IF resp.transport = "bad url"
  THEN Failed(Errorf("failed to create request", 0))
  ELSE IF resp.transport = "refused"
  THEN Failed(Errorf("HTTP request failed", 0))
  ELSE IF resp.body = "unreadable"
  THEN Failed(Errorf("failed to read response body", 0))
  ELSE IF resp.body # "json"
  THEN Failed(Errorf("failed to parse response JSON", 0))
  ELSE LET acc == LoadLoop(resp.issues, o, 1,
                           [issues |-> <<>>, warnings |-> <<>>])
       IN [issues |-> acc.issues, issuesNil |-> FALSE, err |-> NoError,
           warnings |-> acc.warnings]

\* loadIssuesFromURL(ctx, baseURL, opts, client) against a daemon that
\* answers as resp says: the issues and the error returned, and the
\* warnings given on the way.
loadIssuesFromURL(resp, o) ==
  IF resp.transport = "bad url"
  THEN Failed(Errorf("failed to create request", 0))
  ELSE IF resp.transport = "refused"
  THEN Failed(Errorf("HTTP request failed", 0))
  ELSE IF resp.StatusCode # 200
  THEN Failed(Errorf("daemon returned HTTP", resp.StatusCode))
  ELSE IF resp.body = "unreadable"
  THEN Failed(Errorf("failed to read response body", 0))
  ELSE IF resp.body # "json"
  THEN Failed(Errorf("failed to parse response JSON", 0))
  ELSE LET acc == LoadLoop(resp.issues, o, 1,
                           [issues |-> <<>>, warnings |-> <<>>])
       IN [issues |-> acc.issues, issuesNil |-> FALSE, err |-> NoError,
           warnings |-> acc.warnings]

\* The daemon records toModelIssue is applied to.
RefLists == UNION {[1..k -> RefIDs] : k \in 0..MaxRefs}
ProtoIssues ==
  [ID : {"A"}, Status : {"ISSUE_STATUS_OPEN"},
   CreatedAt : {"", GoodTime, BadTime}, UpdatedAt : {GoodTime, BadTime},
   ClosedAt : {"", GoodTime, BadTime}, Parent : RefIDs,
   DependsOn : RefLists, BlockedBy : RefLists,
   Blocks : {<<>>, <<"C">>, <<InverseOnlyID>>},
   Children : {<<>>, <<InverseOnlyID>>}]

\* The daemon records of a response, and the ways the daemon answers.
ListedIssues ==
  [ID : {"", "A", "B"}, Status : ProtoStatuses,
   CreatedAt : {GoodTime}, UpdatedAt : {GoodTime, BadTime},
   ClosedAt : {""}, Parent : {""}, DependsOn : {<<>>, <<"B">>},
   BlockedBy : {<<>>}, Blocks : {<<>>}, Children : {<<>>}]
NoResponse ==
  [transport |-> "", StatusCode |-> 0, body |-> "", issues |-> <<>>]
Responses ==
  {[NoResponse EXCEPT !.transport = t] : t \in {"bad url", "refused"}} \cup
  {[transport |-> "ok", StatusCode |-> c, body |-> b, issues |-> <<>>] :
     c \in StatusCodes, b \in {"not json", "unreadable"}} \cup
  {[transport |-> "ok", StatusCode |-> c, body |-> "json", issues |-> l] :
     c \in StatusCodes, l \in UNION {[1..k -> ListedIssues] : k \in 0..MaxRecords}}

NoRecord == [ProtoIssue |-> "nil"]
NoConversion == [issue |-> ZeroIssue, err |-> NoError]
NoOpts == [IssueFilter |-> "nil"]
NotLoaded == [issues |-> <<>>, issuesNil |-> TRUE, err |-> NoError]
LoaderIdle ==
  /\ record = NoRecord
  /\ converted = NoConversion
  /\ response = NoResponse
  /\ opts = NoOpts
  /\ loaded = NotLoaded
  /\ warnings = <<>>

\* ---------------------------------------------------------------- GetExecutionPlan
TerminalStatuses == {"closed", "tombstone"}
StatusOf(iss, id) == iss[CHOOSE i \in 1..Len(iss) : iss[i].ID = id].Status

\* Mutation: a dependency of any type on a non-terminal issue blocks.
IsActionableAnyType(iss, issue) ==
  /\ issue.Status \in {"open", "in_progress"}
  /\ \A j \in 1..Len(issue.Dependencies) :
       LET dep == issue.Dependencies[j]
       IN (dep.DependsOnID \in IssueIDs(iss) /\ dep.DependsOnID # issue.ID) =>
             StatusOf(iss, dep.DependsOnID) \in TerminalStatuses

\* An issue is actionable when it is open or in progress and each of its
\* blocks dependencies on another issue of the input points to a closed or
\* tombstoned issue.
IsActionable(iss, issue) ==
  /\ issue.Status \in {"open", "in_progress"}
  /\ \A j \in 1..Len(issue.Dependencies) :
       LET dep == issue.Dependencies[j]
       IN (/\ dep.Type = "blocks"
           /\ dep.DependsOnID \in IssueIDs(iss)
           /\ dep.DependsOnID # issue.ID) =>
             StatusOf(iss, dep.DependsOnID) \in TerminalStatuses

ActionableSet(iss) ==
  {iss[i].ID : i \in {k \in 1..Len(iss) : IsActionable(iss, iss[k])}}

\* The weakly connected components of the graph whose edges are the edges of
\* the analysis graph into an actionable issue, each cut down to its
\* actionable issues.  The order of the tracks and of the items of a track
\* follows impact scores and is not modelled: both are sets.
Tracks(a, iss) ==
  LET A == ActionableSet(iss)
      into == {e \in a.g.edges : a.nodeToID[e[2]] \in A}
      both == into \cup {<<e[2], e[1]>> : e \in into}
      component(x) ==
        {a.nodeToID[n] : n \in Reach(both, a.idToNode[x]) \cup {a.idToNode[x]}}
  IN {component(x) \cap A : x \in A}

\* a.GetExecutionPlan()
GetExecutionPlan(a, iss) ==
  LET tracks == Tracks(a, iss)
  IN [tracks |-> tracks,
      summary |-> [total_actionable |-> Cardinality(ActionableSet(iss)),
                   total_tracks |-> Cardinality(tracks)]]

NoPlan ==
  [tracks |-> {}, summary |-> [total_actionable |-> 0, total_tracks |-> 0]]

\* ---------------------------------------------------------------- idle values
\* What the variables of the other commands and of the graph viewer hold
\* while the command at hand runs.
NilRecipe == [nil |-> TRUE]
RecipeIdle ==
  /\ recipe = NilRecipe
  /\ filtered = <<>>
  /\ ordered = <<>>

NoSnapshot == [Issues |-> <<>>]
NoDiff == [computed |-> FALSE]
DiffIdle ==
  /\ before = NoSnapshot
  /\ after = NoSnapshot
  /\ diff = NoDiff

NoPoller == [constructed |-> FALSE]
PollerIdle ==
  /\ poller = NoPoller
  /\ calls = <<>>

\* cycleNavigatorState as declared: lines 1609-1615 of the viewer.
NavigatorInitial ==
  [active |-> FALSE, cycles |-> <<>>, currentIndex |-> 0,
   highlightedCycleNodes |-> {}, highlightedCycleEdges |-> {}]
\* whatIfState as declared; animationTimer 0 is null.
WhatIfInitial ==
  [active |-> FALSE, sourceNode |-> "", unblockedNodes |-> {},
   animationPhase |-> 0, animationTimer |-> 0]
DefaultFilters ==
  [status |-> "", priority |-> -1, labels |-> {}, search |-> "",
   showClosed |-> FALSE]
EmptyStore ==
  [issues |-> <<>>, dependencies |-> <<>>, filters |-> DefaultFilters,
   metricsCycles |-> <<>>, nodeIds |-> <<>>, selectedNode |-> "",
   highlightedNodes |-> {}, highlightedLinks |-> {}, whatIfNodes |-> {},
   summaries |-> 0]
\* No timer is pending; started counts the what-if simulations so far,
\* cancelled holds the simulations that were reset, stale the timers of a
\* cancelled simulation that fired while no simulation was active.
NoTimers == [pending |-> {}, started |-> 0, cancelled |-> {}, stale |-> {}]
NoGraphData == [nodes |-> <<>>, links |-> <<>>]
ViewerIdle ==
  /\ cycleNavigatorState = NavigatorInitial
  /\ whatIfState = WhatIfInitial
  /\ store = EmptyStore
  /\ timers = NoTimers
  /\ graphData = NoGraphData

ExtIdle ==
  /\ RecipeIdle
  /\ DiffIdle
  /\ PollerIdle
  /\ ViewerIdle

\* ---------------------------------------------------------------- main
Init ==
  /\ \E ids \in IssueIDSeqs : \E flat \in FlatDeps(Len(ids)) :
       issues = IssuesFrom(ids, flat)
  /\ limit = 0
  /\ pc = "loaded"
  /\ analyzer = NilAnalyzer
  /\ stats = EmptyStats
  /\ insights = EmptyInsights
  /\ output = <<>>
  /\ rerunSame = TRUE
  /\ plan = NoPlan
  /\ LoaderIdle
  /\ ExtIdle

\* analyzer := analysis.NewAnalyzer(issues)
NewAnalyzer ==
  /\ pc = "loaded"
  /\ LET built == BuildGraph(issues)
     IN \/ /\ built.panic
           /\ pc' = "panic"
           /\ UNCHANGED analyzer
        \/ /\ ~built.panic
           /\ analyzer' = [g |-> [nodes |-> 0..(Len(issues) - 1),
                                  edges |-> built.edges],
                           idToNode |-> IdToNode(issues),
                           nodeToID |-> NodeToID(issues)]
           /\ pc' = "analyzer"
  /\ UNCHANGED <<issues, limit, stats, insights, output, rerunSame>>
  /\ UNCHANGED <<plan, loaderVars>>
  /\ UNCHANGED extVars

\* stats := analyzer.Analyze()
Analyze ==
  /\ pc = "analyzer"
  /\ \/ /\ "panic" \in PageRankOutcomes(analyzer.g)
        /\ pc' = "panic"
        /\ UNCHANGED stats
     \/ /\ \E st \in AnalyzeResults(analyzer) : stats' = st
        /\ pc' = "stats"
  /\ UNCHANGED <<issues, limit, analyzer, insights, output, rerunSame>>
  /\ UNCHANGED <<plan, loaderVars>>
  /\ UNCHANGED extVars

\* insights := stats.GenerateInsights(limit)
GenerateInsightsStep ==
  /\ pc = "stats"
  /\ \E lim \in Limits :
       /\ limit' = lim
       /\ \E ins \in GenerateInsights(stats, lim) : insights' = ins
  /\ pc' = "insights"
  /\ UNCHANGED <<issues, analyzer, stats, output, rerunSame>>
  /\ UNCHANGED <<plan, loaderVars>>
  /\ UNCHANGED extVars

\* encoder.Encode(insights); os.Exit(0)
EncodeStep ==
  /\ pc = "insights"
  /\ output' = Encode(insights)
  /\ pc' = "exit"
  /\ UNCHANGED <<issues, limit, analyzer, stats, insights, rerunSame>>
  /\ UNCHANGED <<plan, loaderVars>>
  /\ UNCHANGED extVars

\* bv --robot-insights is run a second time, by the same build, on the
\* unchanged issues with the same limit, and what it writes is compared with
\* the output of the first run.
RunAgain ==
  /\ pc = "exit"
  /\ LET built == BuildGraph(issues)
         a == [g |-> [nodes |-> 0..(Len(issues) - 1), edges |-> built.edges],
               idToNode |-> IdToNode(issues), nodeToID |-> NodeToID(issues)]
     IN \E st \in AnalyzeResults(a) : \E ins \in GenerateInsights(st, limit) :
          rerunSame' = (Encode(ins) = output)
  /\ pc' = "compared"
  /\ UNCHANGED <<issues, limit, analyzer, stats, insights, output>>
  /\ UNCHANGED <<plan, loaderVars>>
  /\ UNCHANGED extVars

Next ==
  \/ NewAnalyzer
  \/ Analyze
  \/ GenerateInsightsStep
  \/ EncodeStep
  \/ RunAgain

Spec == Init /\ [][Next]_vars

TypeOK ==
  pc \in {"loaded", "panic", "analyzer", "stats", "insights", "exit",
          "compared", "planned", "record", "converted", "request", "returned",
          "recipe", "filtered", "ordered", "snapshots", "diffed",
          "poller", "viewer", "graph"}

\* The issues main holds before anything was loaded.
MainIdle ==
  /\ issues = <<>>
  /\ limit = 0
  /\ analyzer = NilAnalyzer
  /\ stats = EmptyStats
  /\ insights = EmptyInsights
  /\ output = <<>>
  /\ rerunSame = TRUE

\* ---------------------------------------------------------------- main --robot-plan
\* The issues a plan is made for: a prefix of IdList, each issue with a
\* status and its dependencies.
PlanDeps(n) ==
  UNION {{d \in [1..k -> [owner : 1..n, DependsOnID : Ids \cup {UnknownID},
                          Type : PlanDepTypes]] :
            \A i \in 1..k : i < k => d[i].owner <= d[i + 1].owner} :
         k \in 0..MaxDeps}
PlanIssuesFrom(n, st, flat) ==
  [i \in 1..n |-> [ID |-> IdList[i], Status |-> st[i],
                   Dependencies |-> DepsOf(flat, i)]]

InitPlan ==
  /\ \E n \in 0..Len(IdList) :
       \E st \in [1..n -> PlanStatuses] : \E flat \in PlanDeps(n) :
         issues = PlanIssuesFrom(n, st, flat)
  /\ limit = 0
  /\ pc = "loaded"
  /\ analyzer = NilAnalyzer
  /\ stats = EmptyStats
  /\ insights = EmptyInsights
  /\ output = <<>>
  /\ rerunSame = TRUE
  /\ plan = NoPlan
  /\ LoaderIdle
  /\ ExtIdle

\* plan := analyzer.GetExecutionPlan()
GetExecutionPlanStep ==
  /\ pc = "analyzer"
  /\ plan' = GetExecutionPlan(analyzer, issues)
  /\ pc' = "planned"
  /\ UNCHANGED <<issues, limit, analyzer, stats, insights, output, rerunSame,
                 loaderVars>>
  /\ UNCHANGED extVars

NextPlan ==
  \/ NewAnalyzer
  \/ GetExecutionPlanStep

SpecPlan == InitPlan /\ [][NextPlan]_vars

\* ---------------------------------------------------------------- toModelIssue
InitConvert ==
  /\ MainIdle
  /\ plan = NoPlan
  /\ pc = "record"
  /\ record \in ProtoIssues
  /\ converted = NoConversion
  /\ response = NoResponse
  /\ opts = NoOpts
  /\ loaded = NotLoaded
  /\ warnings = <<>>
  /\ ExtIdle

\* issue, err := toModelIssue(&record)
ToModelIssue ==
  /\ pc = "record"
  /\ converted' = toModelIssue(record)
  /\ pc' = "converted"
  /\ UNCHANGED <<issues, limit, analyzer, stats, insights, output, rerunSame,
                 plan, record, response, opts, loaded, warnings>>
  /\ UNCHANGED extVars

NextConvert == ToModelIssue

SpecConvert == InitConvert /\ [][NextConvert]_vars

\* ---------------------------------------------------------------- loadIssuesFromURL
InitLoad ==
  /\ MainIdle
  /\ plan = NoPlan
  /\ pc = "request"
  /\ record = NoRecord
  /\ converted = NoConversion
  /\ response \in Responses
  /\ opts \in [IssueFilter : Filters]
  /\ loaded = NotLoaded
  /\ warnings = <<>>
  /\ ExtIdle

\* issues, err := loadIssuesFromURL(ctx, baseURL, opts, client)
LoadIssuesFromURL ==
  /\ pc = "request"
  /\ LET ret == loadIssuesFromURL(response, opts)
     IN /\ loaded' = [issues |-> ret.issues, issuesNil |-> ret.issuesNil,
                      err |-> ret.err]
        /\ warnings' = ret.warnings
  /\ pc' = "returned"
  /\ UNCHANGED <<issues, limit, analyzer, stats, insights, output, rerunSame,
                 plan, record, converted, response, opts>>
  /\ UNCHANGED extVars

NextLoad == LoadIssuesFromURL

SpecLoad == InitLoad /\ [][NextLoad]_vars

\* ---------------------------------------------------------------- CompareSnapshots
\* A snapshot holds the issues of one revision and the cycle list of their
\* analysis.  Issue i has a status, a priority and at most one blocks
\* dependency, on the other issue; the one cycle two issues can form is
\* listed from either of its nodes.
SnapshotSizes == 0..2
SnapshotStatuses == {"open", "blocked", "closed", "tombstone"}
SnapshotPriorities == {1, 2}
SnapshotFrom(n, st, pr, dep, rot) ==
  [Issues |->
     [i \in 1..n |->
        [ID |-> IdList[i], Status |-> st[i], Priority |-> pr[i],
         Dependencies |-> IF dep[i] /\ n > 1
                          THEN {IdList[CHOOSE j \in 1..n : j # i /\ j <= 2]}
                          ELSE {}]],
   Cycles |-> IF n > 1 /\ dep[1] /\ dep[2]
              THEN IF rot THEN << <<IdList[1], IdList[2]>> >>
                   ELSE << <<IdList[2], IdList[1]>> >>
              ELSE <<>>]
Snapshots ==
  UNION {{SnapshotFrom(n, st, pr, dep, rot) :
            st \in [1..n -> SnapshotStatuses],
            pr \in [1..n -> SnapshotPriorities],
            dep \in [1..n -> BOOLEAN], rot \in BOOLEAN} :
         n \in SnapshotSizes}

SnapshotIDs(snap) == {snap.Issues[i].ID : i \in 1..Len(snap.Issues)}
SnapshotIssue(snap, id) ==
  snap.Issues[CHOOSE i \in 1..Len(snap.Issues) : snap.Issues[i].ID = id]
IsTerminal(status) == status \in {"closed", "tombstone"}

\* Values of changed fields are rendered as strings.
PriorityString(pr) == CASE pr = 1 -> "1" [] pr = 2 -> "2" [] OTHER -> "?"
DependenciesString(deps) ==
  IF deps = {} THEN "" ELSE CHOOSE id \in deps : TRUE

\* The {field, old_value, new_value} records of one issue, alphabetical by
\* field name.
FieldChanges(old, new) ==
  (IF old.Dependencies # new.Dependencies
   THEN << [field |-> "dependencies",
            old_value |-> DependenciesString(old.Dependencies),
            new_value |-> DependenciesString(new.Dependencies)] >>
   ELSE <<>>) \o
  (IF old.Priority # new.Priority
   THEN << [field |-> "priority", old_value |-> PriorityString(old.Priority),
            new_value |-> PriorityString(new.Priority)] >>
   ELSE <<>>) \o
  (IF old.Status # new.Status
   THEN << [field |-> "status", old_value |-> old.Status,
            new_value |-> new.Status] >>
   ELSE <<>>)

\* Rotate a cycle to start at its smallest id.
Canonical(cycle) ==
  LET k == CHOOSE i \in 1..Len(cycle) :
             \A j \in 1..Len(cycle) : IdRank(cycle[i]) <= IdRank(cycle[j])
  IN [i \in 1..Len(cycle) |-> cycle[((k + i - 2) % Len(cycle)) + 1]]
CanonicalCycles(snap) == {Canonical(snap.Cycles[i]) : i \in 1..Len(snap.Cycles)}

\* The totals the metric deltas are taken of; density is edges over
\* n * (n - 1) as a fraction.
Totals(snap) ==
  LET n == Len(snap.Issues)
      e == Cardinality({i \in 1..n : snap.Issues[i].Dependencies # {}})
  IN [total_issues |-> n,
      open_issues |->
        Cardinality({i \in 1..n : ~IsTerminal(snap.Issues[i].Status)}),
      blocked_issues |->
        Cardinality({i \in 1..n : snap.Issues[i].Status = "blocked"}),
      cycle_count |-> Len(snap.Cycles),
      density |-> IF n > 1 THEN [num |-> e, den |-> n * (n - 1)]
                  ELSE [num |-> 0, den |-> 1]]
MetricDeltas(from, to) ==
  LET a == Totals(from)
      b == Totals(to)
  IN [total_issues |-> b.total_issues - a.total_issues,
      open_issues |-> b.open_issues - a.open_issues,
      blocked_issues |-> b.blocked_issues - a.blocked_issues,
      cycle_count |-> b.cycle_count - a.cycle_count,
      density |-> [num |-> b.density.num * a.density.den -
                           a.density.num * b.density.den,
                   den |-> a.density.den * b.density.den]]

\* summary.health_trend
\* Mutation: a tie of closed and new issues counts as improving.
HealthTrendTieImproves(new, closed, introduced, resolved) ==
  IF closed - new >= 0 /\ resolved - introduced >= 0 THEN "improving"
  ELSE IF new - closed > 0 \/ introduced - resolved > 0 THEN "degrading"
  ELSE "stable"

HealthTrend(new, closed, introduced, resolved) ==
  IF closed - new > 0 /\ resolved - introduced >= 0 THEN "improving"
  ELSE IF new - closed > 0 \/ introduced - resolved > 0 THEN "degrading"
  ELSE "stable"

\* analysis.CompareSnapshots(from, to); issue lists are sets of ids,
\* modified_issues is ordered by issue id.
CompareSnapshots(from, to) ==
  LET both == SnapshotIDs(from) \cap SnapshotIDs(to)
      new == SnapshotIDs(to) \ SnapshotIDs(from)
      closed == {id \in both :
                   /\ ~IsTerminal(SnapshotIssue(from, id).Status)
                   /\ IsTerminal(SnapshotIssue(to, id).Status)}
      changed == {id \in both :
                    FieldChanges(SnapshotIssue(from, id),
                                 SnapshotIssue(to, id)) # <<>>}
      introduced == CanonicalCycles(to) \ CanonicalCycles(from)
      resolved == CanonicalCycles(from) \ CanonicalCycles(to)
  IN [computed |-> TRUE,
      new_issues |-> new,
      removed_issues |-> SnapshotIDs(from) \ SnapshotIDs(to),
      closed_issues |-> closed,
      reopened_issues |->
        {id \in both :
           /\ IsTerminal(SnapshotIssue(from, id).Status)
           /\ ~IsTerminal(SnapshotIssue(to, id).Status)},
      modified_issues |->
        LET ids == SelectSeq(IdList, LAMBDA id : id \in changed)
        IN [i \in 1..Len(ids) |->
              [issue_id |-> ids[i],
               changes |-> FieldChanges(SnapshotIssue(from, ids[i]),
                                        SnapshotIssue(to, ids[i]))]],
      new_cycles |-> introduced,
      resolved_cycles |-> resolved,
      metric_deltas |-> MetricDeltas(from, to),
      summary |->
        [health_trend |->
           HealthTrend(Cardinality(new), Cardinality(closed),
                       Cardinality(introduced), Cardinality(resolved))]]

InitDiff ==
  /\ MainIdle
  /\ plan = NoPlan
  /\ LoaderIdle
  /\ RecipeIdle
  /\ PollerIdle
  /\ ViewerIdle
  /\ pc = "snapshots"
  /\ before \in Snapshots
  /\ after \in Snapshots
  /\ diff = NoDiff

\* diff := analysis.CompareSnapshots(fromSnapshot, toSnapshot)
CompareSnapshotsStep ==
  /\ pc = "snapshots"
  /\ diff' = CompareSnapshots(before, after)
  /\ pc' = "diffed"
  /\ UNCHANGED <<issues, limit, analyzer, stats, insights, output, rerunSame,
                 plan, loaderVars, recipeVars, before, after, pollerVars,
                 viewerVars>>

NextDiff == CompareSnapshotsStep

SpecDiff == InitDiff /\ [][NextDiff]_vars

\* ---------------------------------------------------------------- HTTPPoller
\* Polls one run of the poller makes at most, and the issue counts the daemon
\* reports.
MaxPolls == 2
PingCounts == {0, 1, 2}
\* What HTTPReader.Ping returns: (len(issues), nil) or (0, err).
PingResults ==
  {[count |-> c, err |-> FALSE] : c \in PingCounts} \cup
  {[count |-> 0, err |-> TRUE]}

\* NewHTTPPoller(source, callback, opts): the callback may be nil.  run is
\* where the goroutine of Start is: "none" before Start, "select" at the
\* select statement, "ping" inside poll while Ping is outstanding, "exited"
\* after the return.  tick tells whether ticker.C holds a tick.
NewHTTPPoller(callback) ==
  [constructed |-> TRUE, callback |-> callback, lastCount |-> 0,
   source |-> [IssueCount |-> 0], done |-> "open", run |-> "none",
   tick |-> FALSE, polls |-> 0]

\* poll() from the return of Ping on: the poller afterwards, whether the
\* callback was invoked and the source it was given.
\* Mutation: the callback is invoked after every successful poll.
pollAlwaysChanged(p, ping) ==
  IF ping.err THEN [poller |-> p, invoked |-> FALSE, passed |-> p.source]
  ELSE LET src == [IssueCount |-> ping.count]
       IN [poller |-> [p EXCEPT !.lastCount = ping.count, !.source = src],
           invoked |-> p.callback # "nil", passed |-> src]

poll(p, ping) ==
  IF ping.err THEN [poller |-> p, invoked |-> FALSE, passed |-> p.source]
  ELSE LET changed == ping.count # p.lastCount
           src == IF changed THEN [IssueCount |-> ping.count] ELSE p.source
       IN [poller |-> [p EXCEPT !.lastCount = ping.count, !.source = src],
           invoked |-> changed /\ p.callback # "nil", passed |-> src]

InitPoller ==
  /\ MainIdle
  /\ plan = NoPlan
  /\ LoaderIdle
  /\ RecipeIdle
  /\ DiffIdle
  /\ ViewerIdle
  /\ pc = "poller"
  /\ \E cb \in {"set", "nil"} : poller = NewHTTPPoller(cb)
  /\ calls = <<>>

PollerFrame ==
  UNCHANGED <<issues, limit, pc, analyzer, stats, insights, output, rerunSame,
              plan, loaderVars, recipeVars, diffVars, viewerVars>>

\* Start(): go p.run(); run creates the ticker and reaches the select.
Start ==
  /\ poller.run = "none"
  /\ poller' = [poller EXCEPT !.run = "select"]
  /\ UNCHANGED calls
  /\ PollerFrame

\* The ticker puts a tick into ticker.C.
Tick ==
  /\ poller.run \in {"select", "ping"}
  /\ ~poller.tick
  /\ poller.polls < MaxPolls
  /\ poller' = [poller EXCEPT !.tick = TRUE]
  /\ UNCHANGED calls
  /\ PollerFrame

\* select takes case <-p.done: return.
RunDone ==
  /\ poller.run = "select"
  /\ poller.done = "closed"
  /\ poller' = [poller EXCEPT !.run = "exited"]
  /\ UNCHANGED calls
  /\ PollerFrame

\* select takes case <-ticker.C: p.poll() starts and sends the Ping.  When
\* done is closed as well, select picks either case.
RunTick ==
  /\ poller.run = "select"
  /\ poller.tick
  /\ poller' = [poller EXCEPT !.run = "ping", !.tick = FALSE,
                              !.polls = @ + 1]
  /\ UNCHANGED calls
  /\ PollerFrame

\* Ping returns and poll() runs to its end; run is back at the select.
PollReturns ==
  /\ poller.run = "ping"
  /\ \E ping \in PingResults :
       LET r == poll(poller, ping)
       IN /\ poller' = [r.poller EXCEPT !.run = "select"]
          /\ calls' = Append(calls,
                             [kind |-> "poll", err |-> ping.err,
                              count |-> ping.count, invoked |-> r.invoked,
                              passed |-> r.passed,
                              lastCount |-> r.poller.lastCount])
  /\ PollerFrame

\* Stop(): close(p.done), once.
Stop ==
  /\ poller.done = "open"
  /\ poller' = [poller EXCEPT !.done = "closed"]
  /\ calls' = Append(calls, [kind |-> "stop"])
  /\ PollerFrame

NextPoller ==
  \/ Start
  \/ Tick
  \/ RunDone
  \/ RunTick
  \/ PollReturns
  \/ Stop

SpecPoller == InitPoller /\ [][NextPoller]_vars

\* ---------------------------------------------------------------- cycle navigator
\* store.metrics.cycles.cycles: at most MaxCycles cycles, each a list of node
\* indices; index 9 is one the graph has no node for.
MaxCycles == 2
CycleChoices == {<<0, 1>>, <<1, 2>>, <<1, 2, 0>>, <<9>>, <<2, 9>>}
MetricsCycles == UNION {[1..k -> CycleChoices] : k \in 0..MaxCycles}
\* The arguments highlightCycle is called with.
CycleIndexes == -1..(MaxCycles + 1)
\* store.wasmGraph.nodeId(idx); "" stands for undefined.
nodeId(st, idx) == IF idx + 1 \in DOMAIN st.nodeIds THEN st.nodeIds[idx + 1] ELSE ""

\* initCycleNavigator(): the navigator afterwards.
initCycleNavigator(nav, st) ==
  IF Len(st.metricsCycles) = 0
  THEN [nav EXCEPT !.active = FALSE, !.cycles = <<>>, !.currentIndex = 0]
  ELSE LET ids(cycle) ==
             SelectSeq([i \in 1..Len(cycle) |-> nodeId(st, cycle[i])],
                       LAMBDA id : id # "")
           mapped == [k \in 1..Len(st.metricsCycles) |->
                        ids(st.metricsCycles[k])]
           kept == SelectSeq(mapped, LAMBDA cycle : Len(cycle) > 0)
       IN [nav EXCEPT !.cycles = kept, !.currentIndex = 0,
                      !.active = Len(kept) > 0]

\* Math.max(0, Math.min(index, length - 1))
\* Mutation: the index is only limited from above.
ClampIndexFromAbove(index, length) == Min(index, length - 1)

ClampIndex(index, length) ==
  LET upper == Min(index, length - 1)
  IN IF upper < 0 THEN 0 ELSE upper

\* highlightCycle(index): the navigator and the store afterwards.
highlightCycle(nav, st, index) ==
  IF ~nav.active \/ Len(nav.cycles) = 0 THEN [nav |-> nav, store |-> st]
  ELSE LET i == ClampIndex(index, Len(nav.cycles))
           moved == [nav EXCEPT !.currentIndex = i]
       IN IF i + 1 \notin DOMAIN nav.cycles \/ Len(nav.cycles[i + 1]) = 0
          THEN [nav |-> moved, store |-> st]
          ELSE LET cycle == nav.cycles[i + 1]
                   nodes == Range(cycle)
                   edges == {<<cycle[k], cycle[(k % Len(cycle)) + 1]>> :
                               k \in 1..Len(cycle)}
               IN [nav |-> [moved EXCEPT !.highlightedCycleNodes = nodes,
                                         !.highlightedCycleEdges = edges],
                   store |-> [st EXCEPT !.highlightedNodes = nodes,
                                        !.highlightedLinks = edges]]

\* resetCycleNavigator()
resetCycleNavigator(nav, st) ==
  [nav |-> [nav EXCEPT !.active = FALSE, !.currentIndex = 0,
                       !.highlightedCycleNodes = {},
                       !.highlightedCycleEdges = {}],
   store |-> [st EXCEPT !.highlightedNodes = {}, !.highlightedLinks = {}]]

InitNavigator ==
  /\ MainIdle
  /\ plan = NoPlan
  /\ LoaderIdle
  /\ RecipeIdle
  /\ DiffIdle
  /\ PollerIdle
  /\ pc = "viewer"
  /\ cycleNavigatorState = NavigatorInitial
  /\ whatIfState = WhatIfInitial
  /\ \E cycles \in MetricsCycles :
       store = [EmptyStore EXCEPT !.metricsCycles = cycles, !.nodeIds = IdList]
  /\ timers = NoTimers
  /\ graphData = NoGraphData

NavigatorFrame ==
  UNCHANGED <<issues, limit, pc, analyzer, stats, insights, output, rerunSame,
              plan, loaderVars, recipeVars, diffVars, pollerVars, whatIfState,
              timers, graphData>>

InitCycleNavigator ==
  /\ cycleNavigatorState' = initCycleNavigator(cycleNavigatorState, store)
  /\ UNCHANGED store
  /\ NavigatorFrame

HighlightCycle ==
  /\ \E index \in CycleIndexes :
       LET r == highlightCycle(cycleNavigatorState, store, index)
       IN /\ cycleNavigatorState' = r.nav
          /\ store' = r.store
  /\ NavigatorFrame

\* nextCycle()
NextCycle ==
  /\ IF ~cycleNavigatorState.active
     THEN UNCHANGED <<cycleNavigatorState, store>>
     ELSE LET nextIndex == (cycleNavigatorState.currentIndex + 1) %
                             Len(cycleNavigatorState.cycles)
              r == highlightCycle(cycleNavigatorState, store, nextIndex)
          IN /\ cycleNavigatorState' = r.nav
             /\ store' = r.store
  /\ NavigatorFrame

\* prevCycle()
PrevCycle ==
  /\ IF ~cycleNavigatorState.active
     THEN UNCHANGED <<cycleNavigatorState, store>>
     ELSE LET prevIndex == (cycleNavigatorState.currentIndex - 1 +
                              Len(cycleNavigatorState.cycles)) %
                             Len(cycleNavigatorState.cycles)
              r == highlightCycle(cycleNavigatorState, store, prevIndex)
          IN /\ cycleNavigatorState' = r.nav
             /\ store' = r.store
  /\ NavigatorFrame

ResetCycleNavigator ==
  /\ LET r == resetCycleNavigator(cycleNavigatorState, store)
     IN /\ cycleNavigatorState' = r.nav
        /\ store' = r.store
  /\ NavigatorFrame

\* toggleCycleNavigator()
ToggleCycleNavigator ==
  /\ LET r == IF /\ cycleNavigatorState.active
                 /\ cycleNavigatorState.highlightedCycleNodes # {}
              THEN resetCycleNavigator(cycleNavigatorState, store)
              ELSE LET nav == initCycleNavigator(cycleNavigatorState, store)
                   IN IF Len(nav.cycles) > 0
                      THEN highlightCycle(nav, store, 0)
                      ELSE [nav |-> nav, store |-> store]
     IN /\ cycleNavigatorState' = r.nav
        /\ store' = r.store
  /\ NavigatorFrame

NextNavigator ==
  \/ InitCycleNavigator
  \/ HighlightCycle
  \/ NextCycle
  \/ PrevCycle
  \/ ResetCycleNavigator
  \/ ToggleCycleNavigator

SpecNavigator == InitNavigator /\ [][NextNavigator]_vars

\* ---------------------------------------------------------------- what-if simulation
\* Most what-if simulations of one session and most ids one simulation
\* unblocks.
MaxSims == 2
MaxUnblocked == 2
\* The graph the simulations run on: store.issues and store.dependencies.
WhatIfIssues ==
  << [id |-> "A", status |-> "open"], [id |-> "B", status |-> "open"],
     [id |-> "C", status |-> "closed"] >>
WhatIfDependencies ==
  << [issue_id |-> "A", depends_on_id |-> "B", type |-> "blocks"],
     [issue_id |-> "C", depends_on_id |-> "B", type |-> "blocks"],
     [issue_id |-> "B", depends_on_id |-> "C", type |-> "blocks"] >>
StatusOfNode(st, id) ==
  st.issues[CHOOSE i \in 1..Len(st.issues) : st.issues[i].id = id].status
\* node._whatIfState = state, on the set of <<id, state>> marks.
MarkNode(marks, id, state) ==
  {m \in marks : m[1] # id} \cup {<<id, state>>}

\* resetWhatIf(): clearTimeout(animationTimer) removes the pending summary
\* timer; the ripple timers were never kept and stay pending.
resetWhatIf(w, st, tm) ==
  [whatIf |-> WhatIfInitial,
   store |-> [st EXCEPT !.whatIfNodes = {}, !.highlightedNodes = {},
                        !.highlightedLinks = {}],
   timers |-> [tm EXCEPT
                 !.pending = IF w.animationTimer # 0
                             THEN {t \in @ : ~(t.kind = "summary" /\
                                               t.timer = w.animationTimer)}
                             ELSE @,
                 !.cancelled = IF w.active THEN @ \cup {tm.started} ELSE @]]

\* animateWhatIfCascade(sourceNode, result): ripple timer i is due after
\* 300 + 150 i ms, the summary after 300 + 150 n + 200 ms; delays are in
\* units of 50 ms.  Timer ids are the simulation numbers.
animateWhatIfCascade(w, st, tm, source, unblockedIds) ==
  LET r == resetWhatIf(w, st, tm)
      sim == tm.started + 1
      n == Len(unblockedIds)
      ripples == {[sim |-> sim, kind |-> "ripple", id |-> unblockedIds[i],
                   source |-> source, delay |-> 6 + 3 * (i - 1),
                   timer |-> 0] : i \in 1..n}
      summary == [sim |-> sim, kind |-> "summary", id |-> "",
                  source |-> source, delay |-> 6 + 3 * n + 4, timer |-> sim]
  IN [whatIf |-> [active |-> TRUE, sourceNode |-> source,
                  unblockedNodes |-> {}, animationPhase |-> 1,
                  animationTimer |-> sim],
      store |-> [r.store EXCEPT !.highlightedNodes = {source},
                                !.whatIfNodes = {<<source, "closing">>}],
      timers |-> [r.timers EXCEPT !.pending = @ \cup ripples \cup {summary},
                                  !.started = sim]]

\* The callback of a ripple timer.
RippleCallback(w, st, t) ==
  [whatIf |-> [w EXCEPT !.unblockedNodes = @ \cup {t.id}],
   store |->
     [st EXCEPT
        !.highlightedNodes = @ \cup {t.id},
        !.whatIfNodes = MarkNode(@, t.id, "unblocked"),
        !.highlightedLinks =
          @ \cup {<<st.dependencies[k].issue_id, t.id>> :
                    k \in {j \in 1..Len(st.dependencies) :
                             /\ st.dependencies[j].depends_on_id = t.id
                             /\ \/ st.dependencies[j].issue_id = t.source
                                \/ StatusOfNode(st, st.dependencies[j].issue_id)
                                     = "closed"}}]]

\* Timers fire in the order of their due times: a pending timer may fire
\* unless one of the same or an earlier simulation is due before it.
MayFire(tm, t) ==
  /\ t \in tm.pending
  /\ \A u \in tm.pending :
       u # t => ~ \/ (u.sim = t.sim /\ u.delay < t.delay)
                  \/ (u.sim < t.sim /\ u.delay <= t.delay)

InitWhatIf ==
  /\ MainIdle
  /\ plan = NoPlan
  /\ LoaderIdle
  /\ RecipeIdle
  /\ DiffIdle
  /\ PollerIdle
  /\ pc = "viewer"
  /\ cycleNavigatorState = NavigatorInitial
  /\ whatIfState = WhatIfInitial
  /\ store = [EmptyStore EXCEPT !.issues = WhatIfIssues,
                                !.dependencies = WhatIfDependencies,
                                !.nodeIds = IdList]
  /\ timers = NoTimers
  /\ graphData = NoGraphData

\* History: timer t fires although its simulation was reset and no other
\* simulation is active.
StaleFiring(t) ==
  IF t.sim \in timers.cancelled /\ ~whatIfState.active
  THEN {[sim |-> t.sim, kind |-> t.kind]}
  ELSE {}

WhatIfFrame ==
  UNCHANGED <<issues, limit, pc, analyzer, stats, insights, output, rerunSame,
              plan, loaderVars, recipeVars, diffVars, pollerVars,
              cycleNavigatorState, graphData>>

\* performWhatIf(node), by shift-click or the w key; the unblocked ids come
\* from the WASM graph.
PerformWhatIf ==
  /\ timers.started < MaxSims
  /\ \E i \in 1..Len(store.issues) :
       \E unblockedIds \in InjSeqs(Ids \ {store.issues[i].id}) :
           /\ Len(unblockedIds) <= MaxUnblocked
           /\ store.issues[i].status # "closed"
           /\ LET r == animateWhatIfCascade(whatIfState, store, timers,
                                            store.issues[i].id, unblockedIds)
              IN /\ whatIfState' = r.whatIf
                 /\ store' = r.store
                 /\ timers' = r.timers
  /\ WhatIfFrame

\* A ripple timer fires.
RippleTimer ==
  /\ \E t \in timers.pending :
       /\ t.kind = "ripple"
       /\ MayFire(timers, t)
       /\ LET r == RippleCallback(whatIfState, store, t)
          IN /\ whatIfState' = r.whatIf
             /\ store' = r.store
       /\ timers' = [timers EXCEPT !.pending = @ \ {t},
                                   !.stale = @ \cup StaleFiring(t)]
  /\ WhatIfFrame

\* The summary timer fires: showWhatIfSummary.
SummaryTimer ==
  /\ \E t \in timers.pending :
       /\ t.kind = "summary"
       /\ MayFire(timers, t)
       /\ whatIfState' = [whatIfState EXCEPT !.animationPhase = 2]
       /\ store' = [store EXCEPT !.summaries = @ + 1]
       /\ timers' = [timers EXCEPT !.pending = @ \ {t},
                                   !.stale = @ \cup StaleFiring(t)]
  /\ WhatIfFrame

ResetWhatIf ==
  /\ LET r == resetWhatIf(whatIfState, store, timers)
     IN /\ whatIfState' = r.whatIf
        /\ store' = r.store
        /\ timers' = r.timers
  /\ WhatIfFrame

\* The Escape key: resetWhatIf while a simulation is active, clearSelection
\* otherwise.
Escape ==
  /\ IF whatIfState.active
     THEN LET r == resetWhatIf(whatIfState, store, timers)
          IN /\ whatIfState' = r.whatIf
             /\ store' = r.store
             /\ timers' = r.timers
     ELSE /\ store' = [store EXCEPT !.selectedNode = "",
                                    !.highlightedNodes = {},
                                    !.highlightedLinks = {}]
          /\ UNCHANGED <<whatIfState, timers>>
  /\ WhatIfFrame

\* handleNodeClick without modifier keys: resetWhatIf while a simulation is
\* active, then selectNode(node).
NodeClick ==
  /\ \E i \in 1..Len(store.issues) :
       LET r == IF whatIfState.active
                THEN resetWhatIf(whatIfState, store, timers)
                ELSE [whatIf |-> whatIfState, store |-> store,
                      timers |-> timers]
       IN /\ whatIfState' = r.whatIf
          /\ store' = [r.store EXCEPT !.selectedNode = store.issues[i].id,
                                      !.highlightedNodes = {store.issues[i].id},
                                      !.highlightedLinks = {}]
          /\ timers' = r.timers
  /\ WhatIfFrame

NextWhatIf ==
  \/ PerformWhatIf
  \/ RippleTimer
  \/ SummaryTimer
  \/ ResetWhatIf
  \/ Escape
  \/ NodeClick

SpecWhatIf == InitWhatIf /\ [][NextWhatIf]_vars

\* ---------------------------------------------------------------- recipes
\* strings.EqualFold on the strings used here.
EqualFold(a, b) == ToLower(a) = ToLower(b)
\* The characters of the lower-case strings titles are searched for.
Chars(s) ==
  CASE s = "" -> <<>>
    [] s = "log" -> <<"l", "o", "g">>
    [] s = "login" -> <<"l", "o", "g", "i", "n">>
    [] s = "logout" -> <<"l", "o", "g", "o", "u", "t">>
    [] s = "docs" -> <<"d", "o", "c", "s">>
    [] OTHER -> <<s>>
\* strings.Contains
Contains(s, sub) ==
  LET cs == Chars(s)
      cu == Chars(sub)
  IN \E k \in 0..Len(cs) :
       /\ k + Len(cu) <= Len(cs)
       /\ \A i \in 1..Len(cu) : cs[k + i] = cu[i]
\* strings.HasPrefix
HasPrefix(s, prefix) ==
  LET cs == Chars(s)
      cp == Chars(prefix)
  IN /\ Len(cp) <= Len(cs)
     /\ \A i \in 1..Len(cp) : cs[i] = cp[i]
\* The strings that are compared with <, in byte order.
StringOrder ==
  <<"A", "B", "C", "alpha", "beta", "closed", "docs", "login", "logout",
    "open", "tombstone">>
StringLess(a, b) ==
  LET rank(x) == CHOOSE i \in 1..Len(StringOrder) : StringOrder[i] = x
  IN rank(a) < rank(b)

\* recipe.ParseRelativeTime: a time or an error; times are day numbers and
\* 0 is the zero time.
ParseRelativeTime(str) ==
  CASE str = "t1" -> [time |-> 1, err |-> FALSE]
    [] str = "t2" -> [time |-> 2, err |-> FALSE]
    [] OTHER -> [time |-> 0, err |-> TRUE]

\* recipe.FilterConfig with every filter unset; the *bool filters are "nil",
\* "true" or "false".
NoFilters ==
  [Status |-> <<>>, Priority |-> <<>>, Tags |-> <<>>, ExcludeTags |-> <<>>,
   CreatedAfter |-> "", CreatedBefore |-> "", UpdatedAfter |-> "",
   UpdatedBefore |-> "", HasBlockers |-> "nil", Actionable |-> "nil",
   TitleContains |-> "", IDPrefix |-> ""]
NoSort == [Field |-> "", Direction |-> ""]

\* openBlockers: the ids of the issues whose status is not closed.
\* Mutation: the ids of the issues whose status is not terminal.
openBlockersNonTerminal(iss) ==
  {iss[i].ID : i \in {j \in 1..Len(iss) :
                        iss[j].Status \notin {"closed", "tombstone"}}}

openBlockers(iss) ==
  {iss[i].ID : i \in {j \in 1..Len(iss) : iss[j].Status # "closed"}}

\* The loop over issue.Dependencies of the HasBlockers and Actionable
\* filters.
hasOpenBlockers(issue, open) ==
  \E k \in 1..Len(issue.Dependencies) :
    /\ issue.Dependencies[k].Type = "blocks"
    /\ issue.Dependencies[k].DependsOnID \in open

\* One turn of the loop of applyRecipeFilters: TRUE when the issue reaches
\* the append.
KeptByFilters(f, issue, open) ==
  /\ Len(f.Status) > 0 =>
       \E k \in 1..Len(f.Status) : EqualFold(issue.Status, f.Status[k])
  /\ Len(f.Priority) > 0 =>
       \E k \in 1..Len(f.Priority) : issue.Priority = f.Priority[k]
  /\ Len(f.Tags) > 0 =>
       \A k \in 1..Len(f.Tags) :
         \E l \in 1..Len(issue.Labels) : EqualFold(issue.Labels[l], f.Tags[k])
  /\ Len(f.ExcludeTags) > 0 =>
       ~ \E k \in 1..Len(f.ExcludeTags) :
           \E l \in 1..Len(issue.Labels) :
             EqualFold(issue.Labels[l], f.ExcludeTags[k])
  /\ f.CreatedAfter # "" =>
       LET t == ParseRelativeTime(f.CreatedAfter)
       IN ~ (~t.err /\ issue.CreatedAt # 0 /\ issue.CreatedAt < t.time)
  /\ f.CreatedBefore # "" =>
       LET t == ParseRelativeTime(f.CreatedBefore)
       IN ~ (~t.err /\ issue.CreatedAt # 0 /\ issue.CreatedAt > t.time)
  /\ f.UpdatedAfter # "" =>
       LET t == ParseRelativeTime(f.UpdatedAfter)
       IN ~ (~t.err /\ issue.UpdatedAt # 0 /\ issue.UpdatedAt < t.time)
  /\ f.UpdatedBefore # "" =>
       LET t == ParseRelativeTime(f.UpdatedBefore)
       IN ~ (~t.err /\ issue.UpdatedAt # 0 /\ issue.UpdatedAt > t.time)
  /\ f.HasBlockers # "nil" =>
       (f.HasBlockers = "true") = hasOpenBlockers(issue, open)
  /\ f.Actionable = "true" => ~hasOpenBlockers(issue, open)
  /\ f.TitleContains # "" =>
       Contains(ToLower(issue.Title), ToLower(f.TitleContains))
  /\ f.IDPrefix # "" => HasPrefix(issue.ID, f.IDPrefix)

\* applyRecipeFilters(issues, r)
applyRecipeFilters(iss, r) ==
  IF r = NilRecipe THEN iss
  ELSE LET open == openBlockers(iss)
       IN SelectSeq(iss, LAMBDA issue : KeptByFilters(r.Filters, issue, open))

\* The direction applyRecipeSort sorts in.
Ascending(srt) ==
  IF srt.Field = "priority" /\ srt.Direction = "" THEN TRUE
  ELSE IF srt.Field \in {"created", "updated"} /\ srt.Direction = ""
       THEN FALSE
       ELSE srt.Direction # "desc"

\* The less function handed to sort.SliceStable, on the elements x and y.
RecipeLess(srt, x, y) ==
  IF srt.Field \notin {"priority", "created", "updated", "title", "id",
                       "status"}
  THEN FALSE
  ELSE LET less ==
             CASE srt.Field = "priority" -> x.Priority < y.Priority
               [] srt.Field = "created" -> x.CreatedAt < y.CreatedAt
               [] srt.Field = "updated" -> x.UpdatedAt < y.UpdatedAt
               [] srt.Field = "title" ->
                    StringLess(ToLower(x.Title), ToLower(y.Title))
               [] srt.Field = "id" -> StringLess(x.ID, y.ID)
               [] OTHER -> StringLess(x.Status, y.Status)
       IN IF Ascending(srt) THEN less ELSE ~less

\* sort.SliceStable on fewer than 20 elements is an insertion sort:
\* for i := 1; i < n; i++ { for j := i; j > 0 && less(j, j-1); j-- { swap } }
Swap(s, i, j) == [s EXCEPT ![i] = s[j], ![j] = s[i]]
RECURSIVE InsertionInner(_, _, _)
InsertionInner(s, srt, j) ==
  IF j > 1 /\ RecipeLess(srt, s[j], s[j - 1])
  THEN InsertionInner(Swap(s, j, j - 1), srt, j - 1)
  ELSE s
RECURSIVE InsertionSort(_, _, _)
InsertionSort(s, srt, i) ==
  IF i > Len(s) THEN s
  ELSE InsertionSort(InsertionInner(s, srt, i), srt, i + 1)
SliceStable(s, srt) == InsertionSort(s, srt, 2)

\* applyRecipeSort(issues, r)
\* Mutation: an empty sort field sorts by id.
applyRecipeSortByID(iss, r) ==
  IF r = NilRecipe THEN iss
  ELSE IF r.Sort.Field = "" THEN SliceStable(iss, [Field |-> "id", Direction |-> ""])
  ELSE SliceStable(iss, r.Sort)

applyRecipeSort(iss, r) ==
  IF r = NilRecipe \/ r.Sort.Field = "" THEN iss
  ELSE SliceStable(iss, r.Sort)

\* The issues a recipe is applied to.  Filters are tried on a prefix of
\* IdList of at most MaxFiltered issues with fixed titles, labels and times,
\* any of three statuses and any dependencies.
MaxFiltered == 2
RecipeStatuses == {"open", "closed", "tombstone"}
RecipeDepTypes == {"blocks", "related"}
FilterFixture(id) ==
  CASE id = "A" -> [Title |-> "Login", Priority |-> 1, Labels |-> <<"UI">>,
                    CreatedAt |-> 1, UpdatedAt |-> 0]
    [] id = "B" -> [Title |-> "logout", Priority |-> 2,
                    Labels |-> <<"ui", "backend">>,
                    CreatedAt |-> 2, UpdatedAt |-> 2]
    [] OTHER -> [Title |-> "docs", Priority |-> 1, Labels |-> <<>>,
                 CreatedAt |-> 0, UpdatedAt |-> 1]
RecipeDeps(n) ==
  UNION {{d \in [1..k -> [owner : 1..n,
                          DependsOnID : {IdList[i] : i \in 1..n} \cup {UnknownID},
                          Type : RecipeDepTypes]] :
            \A i \in 1..k : i < k => d[i].owner <= d[i + 1].owner} :
         k \in 0..MaxDeps}
FilterIssuesFrom(n, st, flat) ==
  [i \in 1..n |->
     LET fx == FilterFixture(IdList[i])
     IN [ID |-> IdList[i], Title |-> fx.Title, Status |-> st[i],
         Priority |-> fx.Priority, Labels |-> fx.Labels,
         CreatedAt |-> fx.CreatedAt, UpdatedAt |-> fx.UpdatedAt,
         Dependencies |-> DepsOf(flat, i)]]
\* Recipes with at most one filter set and no sort.
FilterConfigs ==
  {NoFilters} \cup
  {[NoFilters EXCEPT !.Status = v] : v \in {<<"OPEN">>, <<"closed", "tombstone">>}} \cup
  {[NoFilters EXCEPT !.Priority = <<1>>]} \cup
  {[NoFilters EXCEPT !.Tags = v] : v \in {<<"ui">>, <<"ui", "backend">>}} \cup
  {[NoFilters EXCEPT !.ExcludeTags = <<"UI">>]} \cup
  {[NoFilters EXCEPT !.CreatedAfter = v] : v \in {"soon", "t2"}} \cup
  {[NoFilters EXCEPT !.CreatedBefore = "t1"]} \cup
  {[NoFilters EXCEPT !.UpdatedAfter = "t2"]} \cup
  {[NoFilters EXCEPT !.UpdatedBefore = "t1"]} \cup
  {[NoFilters EXCEPT !.HasBlockers = v] : v \in {"true", "false"}} \cup
  {[NoFilters EXCEPT !.Actionable = v] : v \in {"true", "false"}} \cup
  {[NoFilters EXCEPT !.TitleContains = "LOG"]} \cup
  {[NoFilters EXCEPT !.IDPrefix = "A"]}
\* Sorting is tried on issues in either id order, without dependencies,
\* whose sort keys are all derived from one key of two values; titles of
\* key 1 differ in case only.
SortKeys == {1, 2}
SortIssuesFrom(ids, key) ==
  [i \in 1..Len(ids) |->
     [ID |-> ids[i],
      Title |-> IF key[i] = 2 THEN "beta"
                ELSE CASE ids[i] = "A" -> "Alpha"
                       [] ids[i] = "B" -> "alpha"
                       [] OTHER -> "ALPHA",
      Status |-> IF key[i] = 1 THEN "closed" ELSE "open",
      Priority |-> key[i], Labels |-> <<>>,
      CreatedAt |-> key[i], UpdatedAt |-> key[i],
      Dependencies |-> <<>>]]
SortFields ==
  {"", "priority", "created", "updated", "title", "id", "status", "votes"}
SortDirections == {"", "asc", "desc"}

\* main holds a non-empty issue list and a non-nil recipe (lines 348-354).
InitRecipe ==
  /\ \/ \E n \in 1..MaxFiltered :
          \E st \in [1..n -> RecipeStatuses] : \E flat \in RecipeDeps(n) :
            \E f \in FilterConfigs :
              /\ issues = FilterIssuesFrom(n, st, flat)
              /\ recipe = [nil |-> FALSE, Filters |-> f, Sort |-> NoSort]
     \/ \E ids \in IssueIDSeqs \ {<<>>} :
          \E key \in [1..Len(ids) -> SortKeys] :
            \E fld \in SortFields : \E dir \in SortDirections :
              /\ issues = SortIssuesFrom(ids, key)
              /\ recipe = [nil |-> FALSE, Filters |-> NoFilters,
                           Sort |-> [Field |-> fld, Direction |-> dir]]
  /\ pc = "recipe"
  /\ filtered = <<>>
  /\ ordered = <<>>
  /\ limit = 0
  /\ analyzer = NilAnalyzer
  /\ stats = EmptyStats
  /\ insights = EmptyInsights
  /\ output = <<>>
  /\ rerunSame = TRUE
  /\ plan = NoPlan
  /\ LoaderIdle
  /\ DiffIdle
  /\ PollerIdle
  /\ ViewerIdle

\* issues = applyRecipeFilters(issues, activeRecipe)
ApplyRecipeFilters ==
  /\ pc = "recipe"
  /\ filtered' = applyRecipeFilters(issues, recipe)
  /\ pc' = "filtered"
  /\ UNCHANGED <<issues, limit, analyzer, stats, insights, output, rerunSame,
                 plan, loaderVars, recipe, ordered, diffVars, pollerVars,
                 viewerVars>>

\* issues = applyRecipeSort(issues, activeRecipe)
ApplyRecipeSort ==
  /\ pc = "filtered"
  /\ ordered' = applyRecipeSort(filtered, recipe)
  /\ pc' = "ordered"
  /\ UNCHANGED <<issues, limit, analyzer, stats, insights, output, rerunSame,
                 plan, loaderVars, recipe, filtered, diffVars, pollerVars,
                 viewerVars>>

NextRecipe ==
  \/ ApplyRecipeFilters
  \/ ApplyRecipeSort

SpecRecipe == InitRecipe /\ [][NextRecipe]_vars

\* ---------------------------------------------------------------- prepareGraphData
\* store.issues: a prefix of IdList; a missing status is "", a missing
\* priority is -1.
ViewerFixture(id) ==
  CASE id = "A" -> [title |-> "Login", priority |-> 1, labels |-> {"ui"}]
    [] id = "B" -> [title |-> "logout", priority |-> 2,
                    labels |-> {"ui", "backend"}]
    [] OTHER -> [title |-> "docs", priority |-> -1, labels |-> {}]
ViewerStatuses(id) == IF id = "C" THEN {""} ELSE {"open", "closed"}
ViewerIssuesFrom(n, st) ==
  [i \in 1..n |->
     LET fx == ViewerFixture(IdList[i])
     IN [id |-> IdList[i], title |-> fx.title, status |-> st[i],
         priority |-> fx.priority, labels |-> fx.labels]]
\* store.dependencies: at most MaxDeps records, in a fixed order; "" is a
\* missing type.
ViewerDependency ==
  [issue_id : {"A", "B"}, depends_on_id : {"B", "C", UnknownID},
   type : {"blocks", "", "related"}]
DependencyRank(d) ==
  9 * (IF d.issue_id = "A" THEN 0 ELSE 1) +
  3 * (CASE d.depends_on_id = "B" -> 0 [] d.depends_on_id = "C" -> 1
         [] OTHER -> 2) +
  (CASE d.type = "blocks" -> 0 [] d.type = "" -> 1 [] OTHER -> 2)
ViewerDependencies ==
  UNION {{d \in [1..k -> ViewerDependency] :
            \A i \in 1..k : i < k =>
              DependencyRank(d[i]) < DependencyRank(d[i + 1])} :
         k \in 0..MaxDeps}
\* The values setFilter is called with; "" and -1 are null.
FilterValues(key) ==
  CASE key = "status" -> {"", "open", "closed"}
    [] key = "priority" -> {-1, 1}
    [] key = "labels" -> {{}, {"ui"}}
    [] key = "search" -> {"", "LOG"}
    [] OTHER -> BOOLEAN
FilterKeys == {"status", "priority", "labels", "search", "showClosed"}

\* `${issue.id} ${issue.title} ${issue.description || ''}`.toLowerCase()
Searchable(issue) ==
  Chars(ToLower(issue.id)) \o <<" ">> \o Chars(ToLower(issue.title)) \o <<" ">>
\* searchable.includes(term)
Includes(cs, term) ==
  LET cu == Chars(term)
  IN \E k \in 0..Len(cs) :
       /\ k + Len(cu) <= Len(cs)
       /\ \A i \in 1..Len(cu) : cs[k + i] = cu[i]

\* The callback of issues.filter: TRUE when the issue becomes a node.
NodeFilter(f, issue) ==
  /\ ~(f.status # "" /\ issue.status # f.status)
  /\ ~(~f.showClosed /\ issue.status = "closed")
  /\ ~(f.priority # -1 /\ issue.priority # f.priority)
  /\ f.labels # {} => f.labels \cap issue.labels # {}
  /\ f.search # "" => Includes(Searchable(issue), ToLower(f.search))

\* The links: blocks or untyped dependencies with both ends among the nodes.
\* Mutation: the ends are not looked up among the nodes.
GraphLinksUnchecked(deps, nodeIds) ==
  LET kept == SelectSeq(deps, LAMBDA d : d.type = "blocks" \/ d.type = "")
  IN [i \in 1..Len(kept) |->
        [source |-> kept[i].issue_id, target |-> kept[i].depends_on_id,
         type |-> IF kept[i].type = "" THEN "blocks" ELSE kept[i].type]]

GraphLinks(deps, nodeIds) ==
  LET kept == SelectSeq(deps,
                        LAMBDA d : /\ d.type = "blocks" \/ d.type = ""
                                   /\ d.issue_id \in nodeIds
                                   /\ d.depends_on_id \in nodeIds)
  IN [i \in 1..Len(kept) |->
        [source |-> kept[i].issue_id, target |-> kept[i].depends_on_id,
         type |-> IF kept[i].type = "" THEN "blocks" ELSE kept[i].type]]

\* prepareGraphData(); the WASM graph is not loaded, so the metrics of
\* every node are 0.
prepareGraphData(st) ==
  LET kept == SelectSeq(st.issues, LAMBDA issue : NodeFilter(st.filters, issue))
      nodeIds == {kept[i].id : i \in 1..Len(kept)}
      count(test(_)) ==
        Cardinality({j \in 1..Len(st.dependencies) : test(st.dependencies[j])})
  IN [nodes |->
        [i \in 1..Len(kept) |->
           [id |-> kept[i].id, title |-> kept[i].title,
            status |-> IF kept[i].status = "" THEN "open" ELSE kept[i].status,
            priority |-> IF kept[i].priority = -1 THEN 2 ELSE kept[i].priority,
            labels |-> kept[i].labels,
            pagerank |-> 0, betweenness |-> 0, criticalDepth |-> 0,
            blockerCount |-> count(LAMBDA d : d.issue_id = kept[i].id),
            dependentCount |-> count(LAMBDA d : d.depends_on_id = kept[i].id),
            inCycle |-> FALSE]],
      links |-> GraphLinks(st.dependencies, nodeIds)]

InitGraphData ==
  /\ MainIdle
  /\ plan = NoPlan
  /\ LoaderIdle
  /\ RecipeIdle
  /\ DiffIdle
  /\ PollerIdle
  /\ pc = "viewer"
  /\ cycleNavigatorState = NavigatorInitial
  /\ whatIfState = WhatIfInitial
  /\ \E n \in 1..Len(IdList) :
       \E st \in [1..n -> {"open", "closed", ""}] :
         \E deps \in ViewerDependencies :
           /\ \A i \in 1..n : st[i] \in ViewerStatuses(IdList[i])
           /\ store = [EmptyStore EXCEPT !.issues = ViewerIssuesFrom(n, st),
                                         !.dependencies = deps]
  /\ timers = NoTimers
  /\ graphData = NoGraphData

GraphDataFrame ==
  UNCHANGED <<issues, limit, analyzer, stats, insights, output, rerunSame,
              plan, loaderVars, recipeVars, diffVars, pollerVars,
              cycleNavigatorState, whatIfState, timers>>

\* The graph is drawn first: graphData = prepareGraphData().
LoadGraphData ==
  /\ pc = "viewer"
  /\ graphData' = prepareGraphData(store)
  /\ pc' = "graph"
  /\ UNCHANGED store
  /\ GraphDataFrame

\* setFilter(key, value)
SetFilter ==
  /\ pc = "graph"
  /\ \E key \in FilterKeys : \E value \in FilterValues(key) :
       store' = [store EXCEPT !.filters[key] = value]
  /\ graphData' = prepareGraphData(store')
  /\ UNCHANGED pc
  /\ GraphDataFrame

\* clearFilters()
ClearFilters ==
  /\ pc = "graph"
  /\ store' = [store EXCEPT !.filters = DefaultFilters]
  /\ graphData' = prepareGraphData(store')
  /\ UNCHANGED pc
  /\ GraphDataFrame

NextGraphData ==
  \/ LoadGraphData
  \/ SetFilter
  \/ ClearFilters

SpecGraphData == InitGraphData /\ [][NextGraphData]_vars

\* ================================================================ claims
Built == pc \in {"analyzer", "stats", "insights", "exit", "compared"}
Analyzed == pc \in {"stats", "insights", "exit", "compared"}
Summarised == pc \in {"insights", "exit", "compared"}

\* The dependency types the specification lets become edges.
EdgeTypes == {"blocks", "parent-child"}

\* Every dependency record of the input with its owner.
InputDeps(iss) ==
  UNION {{[from |-> iss[i].ID, to |-> iss[i].Dependencies[j].DependsOnID,
           type |-> iss[i].Dependencies[j].Type] :
            j \in 1..Len(iss[i].Dependencies)} : i \in 1..Len(iss)}

\* The edges of the analysis graph as pairs of issue ids.
EdgeIDs == {<<analyzer.nodeToID[e[1]], analyzer.nodeToID[e[2]]>> :
              e \in analyzer.g.edges}
HasSelfDep(iss) == \E d \in InputDeps(iss) : d.to = d.from
HasDangling(iss) == \E d \in InputDeps(iss) : d.to \notin IssueIDs(iss)

\* Go's m[k] for a key that may be absent.
MapIndex(m, k) == IF k \in DOMAIN m THEN m[k] ELSE 0
IndexOf(seq, x) == CHOOSE i \in 1..Len(seq) : seq[i] = x

\* ---- C1
\* C1: NewAnalyzer creates an edge only for dependencies of type blocks or
\* parent-child; a dependency of any other type between two known issues
\* adds no edge and counts in no in-degree or out-degree.
C1_OnlyBlockingTypesMakeEdges ==
  /\ Built =>
       \A e \in EdgeIDs : \E d \in InputDeps(issues) :
         d.from = e[1] /\ d.to = e[2] /\ d.type \in EdgeTypes
  /\ Analyzed =>
       \A x \in IssueIDs(issues) :
         /\ stats.OutDegree[x] =
              Cardinality({y \in IssueIDs(issues) \ {x} :
                 \E d \in InputDeps(issues) :
                   d.from = x /\ d.to = y /\ d.type \in EdgeTypes})
         /\ stats.InDegree[x] =
              Cardinality({y \in IssueIDs(issues) \ {x} :
                 \E d \in InputDeps(issues) :
                   d.from = y /\ d.to = x /\ d.type \in EdgeTypes})

\* ---- C2
\* C2: for every issue list with a dependency of an issue on itself,
\* NewAnalyzer completes normally and the graph has no edge from a node to
\* itself.
C2_SelfDependencyDropped ==
  (HasSelfDep(issues) /\ pc # "loaded") =>
     /\ pc # "panic"
     /\ \A e \in analyzer.g.edges : e[1] # e[2]

\* ---- C3
\* The input without the dependencies on ids that name no issue.
WithoutDangling(iss) ==
  [i \in 1..Len(iss) |->
     [iss[i] EXCEPT !.Dependencies =
        SelectSeq(@, LAMBDA d : d.DependsOnID \in IssueIDs(iss))]]

\* C3: a dependency on an id that names no issue of the input is dropped and
\* is never fatal: a run over a non-empty input panics only if the run over
\* the input without those dependencies panics, the graph has one node per
\* issue and none for the unknown id, its edges are those of the input
\* without those dependencies, and the out-degree of the owner counts only
\* its dependencies on known issues.
C3_DanglingDependencyDropped ==
  /\ (pc = "panic" /\ issues # <<>>) =>
       BuildGraph(WithoutDangling(issues)).panic
  /\ Built =>
       /\ analyzer.g.edges = BuildGraph(WithoutDangling(issues)).edges
       /\ Cardinality(analyzer.g.nodes) = Len(issues)
       /\ {analyzer.nodeToID[n] : n \in analyzer.g.nodes} = IssueIDs(issues)
       /\ \A e \in analyzer.g.edges :
            e[1] \in analyzer.g.nodes /\ e[2] \in analyzer.g.nodes
  /\ Analyzed =>
       /\ DOMAIN stats.OutDegree = IssueIDs(issues)
       /\ \A x \in IssueIDs(issues) :
            stats.OutDegree[x] =
              Cardinality({d.to : d \in {r \in InputDeps(issues) :
                                           r.from = x}} \cap IssueIDs(issues))

\* C3 witness: Analyze has returned for an input in which one issue has a
\* dependency on an unknown id and one on a known issue.
C3_Witness ==
  /\ pc = "stats"
  /\ \E x \in IssueIDs(issues) :
       /\ \E d \in InputDeps(issues) : d.from = x /\ d.to \notin IssueIDs(issues)
       /\ \E d \in InputDeps(issues) : d.from = x /\ d.to \in IssueIDs(issues)
       /\ stats.OutDegree[x] = 1

C5_DependentFirst ==
  (Analyzed /\ stats.TopologicalOrder # <<>>) =>
     \A e \in EdgeIDs :
       IndexOf(stats.TopologicalOrder, e[1]) <
         IndexOf(stats.TopologicalOrder, e[2])

\* C5 amended: when TopologicalOrder is not empty, for every edge u -> v
\* (u depends on v) the prerequisite v comes before the dependent u.
C5_PrerequisiteFirst ==
  (Analyzed /\ stats.TopologicalOrder # <<>>) =>
     \A e \in EdgeIDs :
       IndexOf(stats.TopologicalOrder, e[2]) <
         IndexOf(stats.TopologicalOrder, e[1])

\* C5 witness: a topological order of three issues linked by two edges.
C5_Witness ==
  /\ pc = "stats"
  /\ Len(stats.TopologicalOrder) = 3
  /\ Cardinality(EdgeIDs) = 2

\* ---- C6
Acyclic == \A n \in analyzer.g.nodes : n \notin Reach(analyzer.g.edges, n)

SCCOf(x) ==
  {x} \cup {y \in IssueIDs(issues) :
              y \in Reach(EdgeIDs, x) /\ x \in Reach(EdgeIDs, y)}

\* C7: every issue id in a cycle of stats.Cycles lies in a strongly connected
\* component of at least two issues, and an acyclic graph has no cycles
\* listed.
C7_CyclesLieInSCCs ==
  Analyzed =>
    /\ \A i \in 1..Len(stats.Cycles) : \A k \in 1..Len(stats.Cycles[i]) :
         Cardinality(SCCOf(stats.Cycles[i][k])) >= 2
    /\ Acyclic => stats.Cycles = <<>>

\* C7 witness: a cycle is listed while another issue lies on no cycle.
C7_Witness ==
  /\ pc = "stats"
  /\ stats.Cycles # <<>>
  /\ \E x \in IssueIDs(issues) : Cardinality(SCCOf(x)) = 1

\* ---- C8
\* The dependencies of the input between two known issues, as id pairs.
InputPairs(iss) ==
  {<<d.from, d.to>> : d \in {r \in InputDeps(iss) : r.to \in IssueIDs(iss)}}
\* Those of them that lie on a directed cycle of the input.
InputCyclePairs(iss) ==
  {e \in InputPairs(iss) : e[1] \in Reach(InputPairs(iss), e[2])}

\* C8: every dependency that lies on a directed cycle of the input is an edge
\* of the graph NewAnalyzer built, and after Analyze the graph still has all
\* its nodes and those edges, which count in the degrees and the density.
C8_CyclesKept ==
  /\ Built =>
       /\ InputCyclePairs(issues) \subseteq EdgeIDs
       /\ Cardinality(analyzer.g.nodes) = Len(issues)
  /\ Analyzed =>
       /\ \A e \in InputCyclePairs(issues) :
            stats.OutDegree[e[1]] >= 1 /\ stats.InDegree[e[2]] >= 1
       /\ SetSum(stats.OutDegree, IssueIDs(issues)) =
            Cardinality(InputPairs(issues))
       /\ Len(issues) > 1 =>
            stats.Density.num = Cardinality(InputPairs(issues))

\* C8 witness: Analyze has returned for an input with a dependency cycle.
C8_Witness ==
  /\ pc = "stats"
  /\ InputCyclePairs(issues) # {}
  /\ stats.Cycles # <<>>

\* ---- C9
\* The top-N lists whose metric map Analyze fills.
TopLists == <<insights.Bottlenecks, insights.Keystones>>

\* C9: each top-N list has min(limit, number of nodes) entries, is sorted by
\* value descending, and orders entries of equal value by issue id
\* ascending.
C9_TopListsOrdered ==
  Summarised =>
    \A l \in 1..Len(TopLists) :
      LET list == TopLists[l]
      IN /\ Len(list) = Min(limit, Len(issues))
         /\ \A i, j \in 1..Len(list) : i < j =>
              \/ list[i].Value > list[j].Value
              \/ /\ list[i].Value = list[j].Value
                 /\ IdRank(list[i].ID) < IdRank(list[j].ID)

\* ---- C10
\* C10: a second run of NewAnalyzer, Analyze, GenerateInsights and the JSON
\* encoder on the same issues writes the output of the first run.
C10_SameOutputTwice == pc = "compared" => rerunSame

\* ---- C16
\* C16: Analyze returns an empty TopologicalOrder when the graph has a
\* directed cycle and, for a graph with at least one issue, only then; for
\* an acyclic graph TopologicalOrder holds every issue id exactly once.
C16_TopologicalOrderEmptyIffCycle ==
  Analyzed =>
    /\ ~Acyclic => stats.TopologicalOrder = <<>>
    /\ Acyclic =>
         /\ Len(stats.TopologicalOrder) = Len(issues)
         /\ Range(stats.TopologicalOrder) = IssueIDs(issues)
    /\ (stats.TopologicalOrder = <<>> /\ issues # <<>>) => ~Acyclic

\* C16 witness: Analyze has returned an empty order for three issues of
\* which two depend on each other.
C16_Witness ==
  /\ Analyzed
  /\ Len(issues) = 3
  /\ ~Acyclic
  /\ stats.TopologicalOrder = <<>>

\* ---- C17
\* The owner-target pairs of the dependencies of the input.
DepPairs(iss) == {<<d.from, d.to>> : d \in InputDeps(iss)}
EdgeTyped(iss) == \A d \in InputDeps(iss) : d.type \in EdgeTypes

\* The input of two issues A and B in which A depends on B and B on A.
TwoIssueCycle ==
  /\ IssueIDs(issues) = {"A", "B"}
  /\ DepPairs(issues) = {<<"A", "B">>, <<"B", "A">>}
  /\ EdgeTyped(issues)

ThreeIssueChain ==
  /\ IssueIDs(issues) = {"A", "B", "C"}
  /\ DepPairs(issues) = {<<"A", "B">>, <<"B", "C">>}
  /\ EdgeTyped(issues)

IsolatedIDs ==
  SelectSeq(IdList, LAMBDA x :
    /\ x \in IssueIDs(issues)
    /\ stats.InDegree[x] = 0
    /\ stats.OutDegree[x] = 0)

\* C19: the orphans list of the insights holds exactly the ids whose
\* in-degree and out-degree are both 0, in lexicographic order.
C19_OrphansAreIsolatedIssues ==
  Summarised => insights.Orphans = IsolatedIDs

\* ---- C20
\* The edges of the analysis graph from issue x to issue y.
EdgesBetween(x, y) == {e \in EdgeIDs : e = <<x, y>>}
\* The edge-making types under which x depends on y in the input.
TypesBetween(x, y) ==
  {d.type : d \in {dd \in InputDeps(issues) : dd.from = x /\ dd.to = y}}

\* C20: between two issues the graph has one edge per dependency type: a
\* blocks and a parent-child dependency on the same target are two edges,
\* and dependencies that repeat (issue_id, depends_on_id, type) are one.
C20_OneEdgePerType ==
  Built =>
    \A x, y \in IssueIDs(issues) :
      (x # y /\ TypesBetween(x, y) \subseteq EdgeTypes) =>
         Cardinality(EdgesBetween(x, y)) = Cardinality(TypesBetween(x, y))

\* ---- C12
Converted == pc = "converted" /\ converted.err = NoError
\* The distinct non-empty ids of dependsOn and blockedBy.
BlockingRefs(p) == (Range(p.DependsOn) \cup Range(p.BlockedBy)) \ {""}
\* The ids a record names under blocks or children and nowhere else.
InverseOnlyRefs(p) ==
  (Range(p.Blocks) \cup Range(p.Children)) \ (BlockingRefs(p) \cup {p.Parent})

\* C12: the issue toModelIssue returns has exactly one blocks dependency for
\* each distinct non-empty id of dependsOn and blockedBy, every dependency
\* has the id of the issue as IssueID, and no dependency points to an id
\* named under blocks or children only.
C12_OneBlocksDependencyPerRef ==
  Converted =>
    LET deps == converted.issue.Dependencies
        blocking == SelectSeq(deps, LAMBDA d : d.Type = "blocks")
    IN /\ {d.DependsOnID : d \in Range(blocking)} = BlockingRefs(record)
       /\ Len(blocking) = Cardinality(BlockingRefs(record))
       /\ \A d \in Range(deps) : d.IssueID = record.ID
       /\ \A d \in Range(deps) : d.DependsOnID \notin InverseOnlyRefs(record)

\* C12 witness: a record converted whose dependsOn repeats an id that
\* blockedBy names too, and that names another id under blocks only.
C12_Witness ==
  /\ Converted
  /\ record.DependsOn = <<"B", "B">>
  /\ record.BlockedBy = <<"B", "C">>
  /\ record.Blocks = <<InverseOnlyID>>
  /\ Len(converted.issue.Dependencies) = 2

\* ---- C13
\* C13: for a record with a non-empty parent, the issue toModelIssue
\* returns has a parent-child dependency from the issue to that parent.
C13_ParentBecomesParentChild ==
  (Converted /\ record.Parent # "") =>
    \E d \in Range(converted.issue.Dependencies) :
      d = [IssueID |-> record.ID, DependsOnID |-> record.Parent,
           Type |-> "parent-child"]

\* ---- C14
Returned == pc = "returned"
\* The daemon answered 200 with a JSON body.
Answered ==
  response.transport = "ok" /\ response.StatusCode = 200 /\ response.body = "json"
\* The issue a record converts to, with its status normalised.
IssueOf(p) ==
  [toModelIssue(p).issue EXCEPT !.Status = normalizeIssueStatus(@)]
\* The record converts and validates.
WellFormed(p) ==
  toModelIssue(p).err = NoError /\ Validate(IssueOf(p)) = NoError
\* The record passes the optional filter.
PassesFilter(p) == opts.IssueFilter = "nil" \/ IssueFilter(opts, IssueOf(p))

\* C14: when the daemon answers 200 with a JSON body, loadIssuesFromURL
\* returns no error and exactly the issues of the records that convert,
\* validate and pass the optional filter, in input order; one warning is
\* given for each record that fails conversion or validation.
C14_MalformedRecordsSkipped ==
  (Returned /\ Answered) =>
    LET kept == SelectSeq(response.issues,
                          LAMBDA p : WellFormed(p) /\ PassesFilter(p))
    IN /\ loaded.err = NoError
       /\ ~loaded.issuesNil
       /\ loaded.issues = [i \in 1..Len(kept) |-> IssueOf(kept[i])]
       /\ Len(warnings) =
            Cardinality({i \in 1..Len(response.issues) :
                           ~WellFormed(response.issues[i])})

\* C14 witness: a load has returned one issue for a response whose first
\* record has a timestamp that does not parse.
C14_Witness ==
  /\ Returned
  /\ Answered
  /\ Len(response.issues) = 2
  /\ response.issues[1].UpdatedAt = BadTime
  /\ Len(loaded.issues) = 1
  /\ Len(warnings) = 1

\* ---- C15
\* C15: loadIssuesFromURL returns an error and a nil issue list when the
\* request fails, when the daemon answers with a status other than 200 (the
\* error carries that status code), and when the body cannot be read or is
\* not JSON; whenever it returns an error the issue list is nil.
C15_ErrorsReturnNoIssues ==
  Returned =>
    /\ ~Answered => (loaded.err # NoError /\ loaded.issuesNil)
    /\ (response.transport = "ok" /\ response.StatusCode # 200) =>
         loaded.err = Errorf("daemon returned HTTP", response.StatusCode)
    /\ loaded.err # NoError => (loaded.issuesNil /\ loaded.issues = <<>>)

\* C15 witness: the daemon answered 500 with a JSON body of two records and
\* the load returned the error that names 500.
C15_Witness ==
  /\ Returned
  /\ response.StatusCode = 500
  /\ response.body = "json"
  /\ Len(response.issues) = 2
  /\ loaded.err.code = 500
  /\ loaded.issuesNil

\* ---- C11
Planned == pc = "planned"
\* The items of the plan over all its tracks.
PlanItems == UNION plan.tracks
\* The issue of the input with the given id.
IssueByID(id) == issues[CHOOSE i \in 1..Len(issues) : issues[i].ID = id]
\* The issue has a blocks dependency on an issue of the input that is
\* neither closed nor tombstoned.
HasOpenBlocker(issue) ==
  \E d \in Range(issue.Dependencies) :
    /\ d.Type = "blocks"
    /\ d.DependsOnID \in IssueIDs(issues)
    /\ IssueByID(d.DependsOnID).Status \notin {"closed", "tombstone"}
ActionableIDs ==
  {x \in IssueIDs(issues) :
     /\ IssueByID(x).Status \in {"open", "in_progress"}
     /\ ~HasOpenBlocker(IssueByID(x))}

\* C11: every item of the plan is open or in progress and has no blocks
\* dependency on a non-terminal issue of the input; every actionable issue
\* is an item of exactly one track; a plan for an input with an actionable
\* issue has a track.  Parent-child dependencies do not count.
C11_PlanItemsAreTheActionableIssues ==
  Planned =>
    /\ \A x \in PlanItems :
         /\ IssueByID(x).Status \in {"open", "in_progress"}
         /\ ~HasOpenBlocker(IssueByID(x))
    /\ \A x \in ActionableIDs :
         Cardinality({t \in plan.tracks : x \in t}) = 1
    /\ ActionableIDs # {} => plan.tracks # {}

\* C11 witness: a plan of two tracks in which one item has a parent-child
\* dependency on an open issue and another open issue is held back by a
\* blocks dependency.
C11_Witness ==
  /\ Planned
  /\ Cardinality(plan.tracks) = 2
  /\ \E x \in PlanItems : \E d \in Range(IssueByID(x).Dependencies) :
       /\ d.Type = "parent-child"
       /\ d.DependsOnID \in IssueIDs(issues) \ {x}
       /\ IssueByID(d.DependsOnID).Status = "open"
  /\ \E x \in IssueIDs(issues) \ PlanItems : IssueByID(x).Status = "open"

\* ---- C21
\* C21: for the empty issue list NewAnalyzer and Analyze return, and the
\* GraphStats has empty metric maps, density 0, no cycle and an empty
\* topological order.
C21_EmptyInputAnalysed ==
  (issues = <<>> /\ pc \notin {"loaded", "analyzer"}) =>
    /\ pc # "panic"
    /\ stats = EmptyStats

\* ---- C22
\* The recipe has no filter set and an empty sort field.
NoOpRecipe ==
  /\ recipe # NilRecipe
  /\ recipe.Filters = NoFilters
  /\ recipe.Sort.Field = ""
\* C22: a recipe with every filter unset and an empty sort field changes
\* nothing: applyRecipeFilters and then applyRecipeSort return the issues of
\* the input in the order of the input.
C22_NoOpRecipeChangesNothing ==
  NoOpRecipe =>
    /\ pc \in {"filtered", "ordered"} => filtered = issues
    /\ pc = "ordered" => ordered = issues
\* Both functions ran on a no-op recipe and issues that are not in id order.
C22_Witness ==
  /\ NoOpRecipe
  /\ pc = "ordered"
  /\ Len(issues) = 3
  /\ issues[1].ID = "C"
  /\ ordered = issues

\* ---- C24
\* Issue x has a blocks dependency on an issue of the input that is neither
\* closed nor a tombstone.
BlockedByOpenIssue(x) ==
  \E k \in 1..Len(x.Dependencies) :
    /\ x.Dependencies[k].Type = "blocks"
    /\ \E j \in 1..Len(issues) :
         /\ issues[j].ID = x.Dependencies[k].DependsOnID
         /\ issues[j].Status \notin {"closed", "tombstone"}
\* C24: with the Actionable filter set (and no other filter),
\* applyRecipeFilters keeps an issue exactly when none of its blocks
\* dependencies targets an issue of the input that is neither closed nor a
\* tombstone.
C24_ActionableKeepsUnblocked ==
  (/\ pc \in {"filtered", "ordered"}
   /\ recipe # NilRecipe
   /\ recipe.Filters = [NoFilters EXCEPT !.Actionable = "true"]) =>
    filtered = SelectSeq(issues, LAMBDA x : ~BlockedByOpenIssue(x))

\* ---- C30
\* The rank of x under the sort field: equal ranks are equal sort keys.
SortKey(field, x) ==
  LET rank(str) == CHOOSE i \in 1..Len(StringOrder) : StringOrder[i] = str
  IN CASE field = "priority" -> x.Priority
       [] field = "created" -> x.CreatedAt
       [] field = "updated" -> x.UpdatedAt
       [] field = "title" -> rank(ToLower(x.Title))
       [] field = "id" -> rank(x.ID)
       [] field = "status" -> rank(x.Status)
       [] OTHER -> 0
KnownSortFields == {"priority", "created", "updated", "title", "id", "status"}
\* The direction the claim names: the given one, or the default of the field.
EffectiveAscending(srt) ==
  CASE srt.Direction = "desc" -> FALSE
    [] srt.Direction = "asc" -> TRUE
    [] OTHER -> srt.Field \notin {"created", "updated"}
PositionIn(seq, id) == CHOOSE i \in 1..Len(seq) : seq[i].ID = id
\* C30: applyRecipeSort returns a permutation of its input, ordered by the
\* sort field in the effective direction, in which issues with equal sort
\* keys keep their input order; an unknown sort field leaves the order
\* unchanged.
C30_SortIsOrderedAndStable ==
  (pc = "ordered" /\ recipe # NilRecipe /\ recipe.Sort.Field # "") =>
    LET fld == recipe.Sort.Field
        asc == EffectiveAscending(recipe.Sort)
    IN IF fld \notin KnownSortFields THEN ordered = filtered
       ELSE /\ Len(ordered) = Len(filtered)
            /\ {ordered[i].ID : i \in 1..Len(ordered)} =
                 {filtered[i].ID : i \in 1..Len(filtered)}
            /\ \A i, j \in 1..Len(ordered) :
                 i < j =>
                   LET ki == SortKey(fld, ordered[i])
                       kj == SortKey(fld, ordered[j])
                   IN /\ IF asc THEN ki <= kj ELSE ki >= kj
                      /\ ki = kj =>
                           PositionIn(filtered, ordered[i].ID) <
                             PositionIn(filtered, ordered[j].ID)

\* ---- C23
ZeroDeltas ==
  [total_issues |-> 0, open_issues |-> 0, blocked_issues |-> 0,
   cycle_count |-> 0, density |-> 0]
\* C23: the diff of a snapshot against itself has empty new, removed, closed,
\* reopened and modified issue lists, empty new and resolved cycle lists,
\* every metric delta 0 and health_trend "stable".
C23_SelfDiffIsEmpty ==
  (pc = "diffed" /\ before = after) =>
    /\ diff.new_issues = {}
    /\ diff.removed_issues = {}
    /\ diff.closed_issues = {}
    /\ diff.reopened_issues = {}
    /\ diff.modified_issues = <<>>
    /\ diff.new_cycles = {}
    /\ diff.resolved_cycles = {}
    /\ [diff.metric_deltas EXCEPT !.density = @.num] = ZeroDeltas
    /\ diff.summary.health_trend = "stable"
\* A snapshot with a closed issue and a cycle was compared with itself.
C23_Witness ==
  /\ pc = "diffed"
  /\ before = after
  /\ Len(before.Issues) = 2
  /\ before.Issues[1].Status = "closed"
  /\ before.Cycles # <<>>
  /\ diff.summary.health_trend = "stable"

\* ---- C25
\* Entry k of the history is a finished poll.
IsPoll(k) == calls[k].kind = "poll"
\* The count remembered before entry k: that of the last successful poll
\* before it, 0 when there is none.
RememberedBefore(k) ==
  LET ok == {j \in 1..(k - 1) : IsPoll(j) /\ ~calls[j].err}
  IN IF ok = {} THEN 0
     ELSE calls[CHOOSE j \in ok : \A l \in ok : l <= j].count
\* C25: a poller with a callback invokes it after a poll exactly when the
\* poll succeeded and its count differs from the count remembered from the
\* last successful poll (0 at first); the source passed carries the new
\* count; a failed poll leaves the remembered count unchanged.
C25_CallbackExactlyOnChange ==
  (poller # NoPoller /\ poller.callback = "set") =>
    \A k \in 1..Len(calls) :
      IsPoll(k) =>
        /\ calls[k].invoked <=>
             (~calls[k].err /\ calls[k].count # RememberedBefore(k))
        /\ calls[k].invoked => calls[k].passed.IssueCount = calls[k].count
        /\ calls[k].err => calls[k].lastCount = RememberedBefore(k)
        /\ ~calls[k].err => calls[k].lastCount = calls[k].count
\* A poll changed the count and the next poll returned the remembered
\* count: one invocation.
C25_Witness ==
  /\ poller # NoPoller
  /\ poller.callback = "set"
  /\ Len(calls) = 2
  /\ IsPoll(1) /\ calls[1].invoked /\ calls[1].count = 2
  /\ IsPoll(2) /\ ~calls[2].err /\ calls[2].count = 2 /\ ~calls[2].invoked

\* ---- C26
\* C26: once Stop has returned the poller never invokes the callback again.
C26_NoCallbackAfterStop ==
  \A i, j \in 1..Len(calls) :
    (i < j /\ calls[i].kind = "stop") => ~(IsPoll(j) /\ calls[j].invoked)

\* ---- C27
NavigatorIndexValid ==
  cycleNavigatorState.active =>
    /\ 0 <= cycleNavigatorState.currentIndex
    /\ cycleNavigatorState.currentIndex < Len(cycleNavigatorState.cycles)
\* A step of nextCycle moves one cycle forward and from the last cycle to
\* the first; a step of prevCycle moves one cycle back and from the first to
\* the last; so each undoes the other.
NavigatorStepsWrap ==
  LET cur == cycleNavigatorState.currentIndex
      last == Len(cycleNavigatorState.cycles) - 1
  IN cycleNavigatorState.active =>
       /\ NextCycle =>
            cycleNavigatorState'.currentIndex =
              IF cur = last THEN 0 ELSE cur + 1
       /\ PrevCycle =>
            cycleNavigatorState'.currentIndex =
              IF cur = 0 THEN last ELSE cur - 1
\* C27: while the cycle navigator is active, currentIndex is a valid index
\* of its cycle list after any sequence of highlightCycle(i), nextCycle and
\* prevCycle; nextCycle and prevCycle wrap around the ends and undo each
\* other.
C27_IndexValidAndWraps ==
  []NavigatorIndexValid /\ [][NavigatorStepsWrap]_vars
\* The navigator shows the last of two cycles.
C27_Witness ==
  /\ cycleNavigatorState.active
  /\ Len(cycleNavigatorState.cycles) = 2
  /\ cycleNavigatorState.currentIndex = 1
  /\ cycleNavigatorState.highlightedCycleNodes # {}

\* ---- C28
\* C28: after resetWhatIf the what-if visual state stays cleared until a new
\* simulation is started: no timer of the cancelled simulation fires and
\* highlights a node or a link, marks a node 'unblocked' or shows the
\* summary; while no simulation is active no node is marked 'unblocked' and
\* nothing but the selected node is highlighted.
C28_ResetCancelsSimulation ==
  /\ timers.stale = {}
  /\ ~whatIfState.active =>
       /\ \A m \in store.whatIfNodes : m[2] # "unblocked"
       /\ whatIfState.unblockedNodes = {}
       /\ store.highlightedNodes \subseteq {store.selectedNode}
       /\ store.highlightedLinks = {}

\* ---- C29
GraphNodeIDs == {graphData.nodes[i].id : i \in 1..Len(graphData.nodes)}
\* C29: for every combination of filters the graph data of prepareGraphData
\* is closed: both ends of every link are returned nodes, and every
\* returned node passes every active filter; a closed issue is returned
\* only when showClosed is set.
C29_GraphDataClosed ==
  pc = "graph" =>
    /\ \A i \in 1..Len(graphData.links) :
         /\ graphData.links[i].source \in GraphNodeIDs
         /\ graphData.links[i].target \in GraphNodeIDs
    /\ \A i \in 1..Len(graphData.nodes) :
         LET node == graphData.nodes[i]
             f == store.filters
         IN /\ f.status # "" => node.status = f.status
            /\ node.status = "closed" => f.showClosed
            /\ f.priority # -1 => node.priority = f.priority
            /\ f.labels # {} => \E l \in f.labels : l \in node.labels
            /\ f.search # "" =>
                 \/ Includes(Chars(ToLower(node.id)), ToLower(f.search))
                 \/ Includes(Chars(ToLower(node.title)), ToLower(f.search))
\* A filter removed an issue that a dependency names, and a link is left.
C29_Witness ==
  /\ pc = "graph"
  /\ store.filters.labels # {}
  /\ Len(graphData.nodes) < Len(store.issues)
  /\ Len(graphData.links) > 0
  /\ \E j \in 1..Len(store.dependencies) :
       /\ store.dependencies[j].type = "blocks"
       /\ store.dependencies[j].depends_on_id \notin GraphNodeIDs
       /\ store.dependencies[j].depends_on_id # UnknownID

====
